---- MODULE Spec2Model ----
(***************************************************************************)
(* A model of saj/vault-tools: the converters between Vault's filesystem   *)
(* storage backend (one file per record) and a Consul KV export (one JSON  *)
(* array), and the stepped filesystem Walker that feeds them.              *)
(*                                                                         *)
(* tool selects the program being run:                                     *)
(*   "walker"         a client of the Walker API (NewWalker/Next/Stop)     *)
(*   "convertWalker"  vault-convert-backend-filesystem-consul, the         *)
(*                    Converter that reads the tree through a Walker       *)
(*   "convertFsConsul" vault-convert-backend-filesystem-consul, convert()  *)
(*                    over a filesystemBackend and a consulBackend         *)
(*   "convertConsulFs" vault-convert-backend-consul-filesystem, convert()  *)
(*                    over a consulBackend and a filesystemBackend         *)
(*   "converterConsulFs" vault-convert-backend-consul-filesystem, the      *)
(*                    Converter with a key prefix                          *)
(*   "functions"      one call of a function of the tools on its own: the  *)
(*                    walk of a tree, a conversion there and back          *)
(***************************************************************************)
EXTENDS Integers, Sequences, FiniteSets, TLC

\* ------------------------------------------------------------------ bounds
\* Regular files a walk may visit.
MaxFiles == 12
\* Directories and other non-regular files a walk may visit.
MaxSkips == 1
\* Stop calls a client of the Walker makes.
MaxStopCalls == 2
\* Next calls a client makes after the walk has reported its end.
MaxEndReturns == 2

\* Bytes of the buffer a failing write may have put in the file.
MaxShortWrite == 1
\* Bytes a bufio.Writer holds before it writes them out (4096 in bufio; here
\* every record object counts as one byte, and as there the buffer has room
\* for more than one record with its framing).
BufSize == 8

\* Elements of the input array a run may decode.
MaxRecords == 3

\* Files of a tree that is walked or converted there and back.
MaxTreeKeys == 3

\* Elements of an array that is converted twice.
MaxReruns == 2

\* --------------------------------------------------------------- constants
\* make(chan *WalkResult, 10)
QueueCap == 10

\* error values
Nil == "nil"
walkStopped == "walk stopped"
WalkError == "lstat: permission denied"
InvalidPathError == "invalid Consul path"
OpenOutputError == "open output: permission denied"
OpenInputError == "open input: no such file"
DecodeError == "invalid character"
WriteError == "write: no space left on device"
CloseError == "close: input/output error"
ListError == "readdir: permission denied"
OpenBackendError == "file backend: path is not a directory"
GetError == "file backend: invalid character"
PutError == "file backend: permission denied"
TokenError == "EOF"
HeaderError == "expected JSON token: '['"
Base64Error == "illegal base64 data"
MkdirError == "mkdir: permission denied"
ChmodError == "chmod: operation not permitted"
OpenLeafError == "open leaf: is a directory"
EncodeError == "write leaf: no space left on device"
\* Every failure is an error value of its own: the write that fails inside
\* consulBackend.Close is not the one that failed in WriteEntry.
CloseWriteError == "write at close: no space left on device"

\* A nil *WalkResult.
NilResult == 0

\* No entry.
NoEntry == [Key |-> <<>>, Value |-> "none"]

VARIABLES
  tool,          \* the program being run
  firstToken,    \* the first JSON token of the input file ("none": there is none)
  closing,       \* what the input holds after its last element, once the reader is there
  \* --- Walker (the producer goroutine and the fields of the struct)
  wpc,           \* goroutine position: idle, walk, send, ret, close, done
  files,         \* regular files filepath.Walk has handed to walkFn so far
  skips,         \* non-regular files filepath.Walk has handed to walkFn so far
  walkRet,       \* what filepath.Walk returned (local err of the goroutine)
  results,       \* Walker.results: the buffered channel's contents
  resultsClosed, \* Walker.results is closed
  werr,          \* Walker.err
  stop,          \* Walker.stop is closed
  stopCloses,    \* the times close(w.stop) was executed (a second one panics)
  stopped,       \* Walker.stopped
  sending,       \* the result the second select of walkFn (the send of walk) is sending
  \* --- the client of the Walker
  clientPc,      \* idle, next (inside Next, blocked on the receive)
  stopCalls,     \* Stop calls made so far
  \* --- the converter and its main
  consulPath,    \* the --consul-path flag
  mpc,           \* position of main
  count,         \* Converter.count
  firstErr,      \* Converter.firstErr / Converter.firstError
  retErr,        \* convert's named result err
  defers,        \* the deferred Close calls of convert, last registered last
  exit,          \* running, or how the process ended: ok (status 0), failed
  run,           \* the run: init, running, succeeded, failed
  opened,        \* what the run has opened or started
  \* --- the input array file and the output tree
  inState,       \* absent, open, closed
  decoded,       \* elements of the array decoded so far
  entry,         \* the entry between convertEntry and WriteEntry
  tree,          \* the files of the output tree: path or key -> contents
  dirs,          \* the directories made in the output tree
  \* --- the output array file
  outState,      \* absent, open, closed
  outFile,       \* the bytes in the file
  buffer,        \* bytes written but not yet in the file
  bufErr,        \* bufio.Writer's sticky error
  \* --- history
  enq,           \* every result the producer enqueued, in order
  deq,           \* every (result, err) Next returned, in order
  pulled,        \* every record the converter pulled from its source, in order
  pushed,        \* every record the converter pushed to its sink, in order
  input,         \* every element decoded from the input array, in order
  failures,      \* every failure met by the run, in order
  closeLog,      \* the backends whose Close was called, in order
  \* --- a function called on its own
  call,          \* the function and its arguments
  callRet        \* what it returned

walkerVars == <<wpc, files, skips, walkRet, results, resultsClosed, werr, stop, stopCloses, stopped, sending>>
clientVars == <<clientPc, stopCalls>>
convVars == <<consulPath, mpc, count, firstErr, retErr, defers, exit, run, opened>>
inVars == <<inState, decoded, entry, tree, dirs, input>>
outVars == <<outState, outFile, buffer, bufErr>>
histVars == <<enq, deq, pulled, pushed, failures, closeLog>>
fnVars == <<call, callRet>>
vars == <<tool, firstToken, closing, walkerVars, clientVars, convVars, inVars, outVars, histVars, fnVars>>

Tools ==
  {"walker", "convertWalker", "convertFsConsul", "convertConsulFs", "converterConsulFs", "converterValidating"}

\* ------------------------------------------------------------------ strings
\* A string is the sequence of its characters.

\* The values of --consul-path tried: "", "/", ".", "v", "v/" and "v/..".
ConsulPaths == {<<>>, <<"/">>, <<".">>, <<"v">>, <<"v", "/">>, <<"v", "/", ".", ".">>}

\* Those tried with the filesystem-to-Consul tools, whose output does not
\* depend on which valid path is given.
ForwardConsulPaths == ConsulPaths \ {<<"v", "/">>}

RECURSIVE Split(_)
\* strings.Split(s, "/")
Split(s) ==
  IF \A i \in DOMAIN s : s[i] # "/"
    THEN <<s>>
    ELSE LET i == CHOOSE j \in DOMAIN s : s[j] = "/" /\ \A k \in 1..(j - 1) : s[k] # "/"
         IN <<SubSeq(s, 1, i - 1)>> \o Split(SubSeq(s, i + 1, Len(s)))

RECURSIVE Join(_)
\* strings.Join(elems, "/")
Join(elems) ==
  IF elems = <<>> THEN <<>>
  ELSE IF Len(elems) = 1 THEN elems[1]
  ELSE elems[1] \o <<"/">> \o Join(Tail(elems))

RECURSIVE CleanElems(_, _, _)
\* path.Clean, element by element: ".." removes the element before it, or
\* is dropped at the root, or is kept when nothing precedes it.
CleanElems(elems, out, rooted) ==
  IF elems = <<>> THEN out
  ELSE LET e == Head(elems) IN
    IF e = <<".", ".">>
      THEN IF out # <<>> /\ out[Len(out)] # <<".", ".">>
             THEN CleanElems(Tail(elems), SubSeq(out, 1, Len(out) - 1), rooted)
             ELSE IF rooted
               THEN CleanElems(Tail(elems), out, rooted)
               ELSE CleanElems(Tail(elems), Append(out, e), rooted)
      ELSE CleanElems(Tail(elems), Append(out, e), rooted)

\* path.Clean(p): no empty and no "." elements, ".." resolved, no trailing
\* slash; "." for the empty path.
Clean(p) ==
  LET rooted == p # <<>> /\ p[1] = "/"
      elems == SelectSeq(Split(p), LAMBDA e : e # <<>> /\ e # <<".">>)
      out == CleanElems(elems, <<>>, rooted)
  IN IF rooted THEN <<"/">> \o Join(out)
     ELSE IF out = <<>> THEN <<".">>
     ELSE Join(out)

\* keyPrefix == "/" || keyPrefix == "."
invalidConsulPathSlashOnly(keyPrefix) == keyPrefix = <<"/">>
invalidConsulPathDotOnly(keyPrefix) == keyPrefix = <<".">>
invalidConsulPath(keyPrefix) == keyPrefix = <<"/">> \/ keyPrefix = <<".">>

\* What json.Decoder.Token may find first in the input file: "[", another
\* token, or none (the file is empty, or does not begin with JSON).
FirstTokens == {"[", "{", "none"}

\* consulBackend.eatHeader: the error of Token, or of the test of the token.
eatHeaderNoTest(t) == IF t = "none" THEN TokenError ELSE Nil
eatHeader(t) ==
  IF t = "none" THEN TokenError
  ELSE IF t # "[" THEN HeaderError
  ELSE Nil

\* What the input may hold after its last element: nothing (the file ends
\* there), "]", or "]" and more after it.  Unread: the reader is not there yet.
Unread == <<"?">>
Closings == {<<>>, <<"]">>, <<"]", "x">>, <<"]", "{">>}

\* The next byte dec.peek() finds where the elements end, "eof" for its error.
peek(rest) == IF rest = <<>> THEN "eof" ELSE rest[1]

\* json.Decoder.More(): c, err := dec.peek(); return err == nil && c != ']' && c != '}'
MoreUntilEof(c) == c # "eof"
More(c) == c \notin {"eof", "]", "}"}

\* No call.
NoCall == [fn |-> "none", disk |-> <<>>, values |-> <<>>]
NoReturn == [done |-> FALSE, value |-> <<>>]

\* The state of a program that has just started.
Started ==
  /\ closing = Unread
  /\ wpc = "idle"
  /\ files = 0
  /\ skips = 0
  /\ walkRet = Nil
  /\ results = <<>>
  /\ resultsClosed = FALSE
  /\ werr = Nil
  /\ stop = FALSE
  /\ stopCloses = 0
  /\ stopped = FALSE
  /\ sending = NilResult
  /\ clientPc = "idle"
  /\ stopCalls = 0
  /\ mpc = "start"
  /\ count = 0
  /\ firstErr = Nil
  /\ retErr = Nil
  /\ defers = <<>>
  /\ exit = "running"
  /\ run = "init"
  /\ opened = {}
  /\ inState = "absent"
  /\ decoded = 0
  /\ entry = NoEntry
  /\ tree = <<>>
  /\ dirs = {}
  /\ input = <<>>
  /\ outState = "absent"
  /\ outFile = <<>>
  /\ buffer = <<>>
  /\ bufErr = Nil
  /\ enq = <<>>
  /\ deq = <<>>
  /\ pulled = <<>>
  /\ pushed = <<>>
  /\ failures = <<>>
  /\ closeLog = <<>>
  /\ callRet = NoReturn

Init ==
  /\ tool \in Tools
  /\ consulPath \in (IF tool \in {"walker", "converterValidating"} THEN {<<"v">>}
                     ELSE IF tool \in {"convertWalker", "convertFsConsul"} THEN ForwardConsulPaths
                     ELSE ConsulPaths)
  /\ firstToken \in (IF tool \in {"convertConsulFs", "converterConsulFs", "converterValidating"}
                       THEN FirstTokens ELSE {"["})
  /\ call = NoCall
  /\ Started

\* ------------------------------------------------------------------ Walker

\* What the producer goroutine leaves alone.  The goroutine runs for as long
\* as the process does (exit = "running"): it ends with main.
consumerVars == <<tool, firstToken, closing, fnVars, clientVars, convVars, inVars, outVars, deq, pulled, pushed, failures, closeLog>>

\* A send on the results (keys) channel, made with capacity 10, is ready
\* when fewer than that many values are queued.
sendReadyAlways(queue) == TRUE
sendReady(queue) == Len(queue) < QueueCap

\* NewWalker: allocate the channels and start the goroutine.
NewWalker ==
  /\ wpc' = "walk"
  /\ UNCHANGED <<files, skips, walkRet, results, resultsClosed, werr, stop, stopCloses, stopped, sending, enq>>

\* walkFn, first select: case <-w.stop is ready once the channel is closed.
walkFnPollStop == stop

\* walkFn, second select: case <-w.stop beside the send.
walkFnSendStopNever == FALSE
walkFnSendStop == stop

\* The kind of file filepath.Walk hands to walkFn: a regular file, a
\* non-regular one (info.Mode()&os.ModeType != 0: the root and every other
\* directory, symlinks, devices), or one it could not stat or list (err != nil).
FileKinds == {"regular", "nonregular", "err"}

\* &WalkResult{Path: path, Info: info} for the file filepath.Walk hands to
\* walkFn: the number of the file among the regular ones, or, below zero,
\* among the others.
WalkResult(kind, regular, others) == IF kind = "regular" THEN regular + 1 ELSE 0 - (others + 1)

\* if info.Mode()&os.ModeType != 0 { return nil }
notRegularNever(kind) == FALSE
notRegular(kind) == kind = "nonregular"

\* filepath.Walk calls walkFn(path, info, err): everything up to the send.
walkFn(kind) ==
  /\ tool \in {"walker", "convertWalker"}
  /\ exit = "running"
  /\ wpc = "walk"
  /\ \/ kind = "err"
     \/ kind = "regular" /\ files < MaxFiles
     \/ kind = "nonregular" /\ skips < MaxSkips
  /\ IF kind = "err"
       THEN /\ walkRet' = WalkError
            /\ wpc' = "ret"
            /\ UNCHANGED <<files, skips, sending>>
       ELSE IF walkFnPollStop
         THEN /\ walkRet' = walkStopped
              /\ wpc' = "ret"
              /\ UNCHANGED <<files, skips, sending>>
         ELSE /\ files' = IF kind = "regular" THEN files + 1 ELSE files
              /\ skips' = IF kind = "regular" THEN skips ELSE skips + 1
              /\ IF notRegular(kind)
                   THEN UNCHANGED <<wpc, walkRet, sending>>
                   ELSE /\ sending' = WalkResult(kind, files, skips)
                        /\ wpc' = "send"
                        /\ UNCHANGED walkRet
  /\ UNCHANGED <<results, resultsClosed, werr, stop, stopCloses, stopped, enq, consumerVars>>

WalkCall == \E kind \in FileKinds : walkFn(kind)

\* walkFn, second select, case w.results <- &WalkResult{...}
walkFnSend ==
  /\ tool \in {"walker", "convertWalker"}
  /\ exit = "running"
  /\ wpc = "send"
  /\ sendReady(results)
  /\ results' = Append(results, sending)
  /\ enq' = Append(enq, sending)
  /\ sending' = NilResult
  /\ wpc' = "walk"
  /\ UNCHANGED <<files, skips, walkRet, resultsClosed, werr, stop, stopCloses, stopped, consumerVars>>

\* walkFn, second select, case <-w.stop: return walkStopped
walkFnStopped ==
  /\ tool \in {"walker", "convertWalker"}
  /\ exit = "running"
  /\ wpc = "send"
  /\ walkFnSendStop
  /\ walkRet' = walkStopped
  /\ wpc' = "ret"
  /\ UNCHANGED <<files, skips, results, resultsClosed, werr, stop, stopCloses, stopped, sending, enq, consumerVars>>

\* filepath.Walk has exhausted root and returns nil.
WalkExhausted ==
  /\ tool \in {"walker", "convertWalker"}
  /\ exit = "running"
  /\ wpc = "walk"
  /\ walkRet' = Nil
  /\ wpc' = "ret"
  /\ UNCHANGED <<files, skips, results, resultsClosed, werr, stop, stopCloses, stopped, sending, enq, consumerVars>>

\* The goroutine of NewWalker: if err != nil && err != walkStopped { w.err = err }
storedErrAny(err, old) == IF err # Nil THEN err ELSE old
storedErrNever(err, old) == old
storedErr(err, old) == IF err # Nil /\ err # walkStopped THEN err ELSE old

WalkerStoreErr ==
  /\ tool \in {"walker", "convertWalker"}
  /\ exit = "running"
  /\ wpc = "ret"
  /\ werr' = storedErr(walkRet, werr)
  /\ wpc' = "close"
  /\ UNCHANGED <<files, skips, walkRet, results, resultsClosed, stop, stopCloses, stopped, sending, enq, consumerVars>>

\* The goroutine of NewWalker: close(w.results)
WalkerClose ==
  /\ tool \in {"walker", "convertWalker"}
  /\ exit = "running"
  /\ wpc = "close"
  /\ resultsClosed' = TRUE
  /\ wpc' = "done"
  /\ UNCHANGED <<files, skips, walkRet, results, werr, stop, stopCloses, stopped, sending, enq, consumerVars>>

\* Walker.Stop: if w.stopped { return }
stopReturnsEarlyNever == FALSE
stopReturnsEarly == stopped

\* Walker.Stop, under mtxStopped: one call is over before the next begins.
Stop ==
  /\ IF stopReturnsEarly
       THEN UNCHANGED <<stop, stopCloses, stopped>>
       ELSE /\ stop' = TRUE
            /\ stopCloses' = stopCloses + 1
            /\ stopped' = TRUE
  /\ UNCHANGED <<wpc, files, skips, walkRet, results, resultsClosed, werr, enq, sending>>

\* A receive from the results channel is ready when the channel holds a
\* result or is closed.
NextReadyOnResult == results # <<>>
NextReady == results # <<>> \/ resultsClosed

\* r, ok := <-w.results
recvResultNewest == IF results # <<>> THEN results[Len(results)] ELSE NilResult
recvResultUnlessStopped == IF results # <<>> /\ ~stop THEN Head(results) ELSE NilResult
recvResult == IF results # <<>> THEN Head(results) ELSE NilResult
recvOk == results # <<>>

\* if !ok { err = w.err }
nextErrAlwaysNil == Nil
nextErrEager == werr
nextErr == IF ~recvOk THEN werr ELSE Nil

\* Walker.Next: the receive, and the (result, err) returned.
WalkerNext ==
  /\ NextReady
  /\ deq' = Append(deq, [result |-> recvResult, err |-> nextErr])
  /\ results' = IF results # <<>> THEN Tail(results) ELSE results
  /\ UNCHANGED <<wpc, files, skips, walkRet, resultsClosed, werr, stop, stopCloses, stopped, sending, enq>>

\* ----------------------------------------------------- a client of the Walker

\* Next calls that returned the end of the walk (a nil result).
EndReturns == Cardinality({i \in DOMAIN deq : deq[i].result = NilResult})

ClientNewWalker ==
  /\ tool = "walker"
  /\ wpc = "idle"
  /\ NewWalker
  /\ UNCHANGED consumerVars

ClientCallNext ==
  /\ tool = "walker"
  /\ wpc # "idle"
  /\ clientPc = "idle"
  /\ EndReturns < MaxEndReturns
  /\ clientPc' = "next"
  /\ UNCHANGED <<tool, firstToken, closing, fnVars, walkerVars, stopCalls, convVars, inVars, outVars, histVars>>

ClientNextReturns ==
  /\ tool = "walker"
  /\ clientPc = "next"
  /\ WalkerNext
  /\ clientPc' = "idle"
  /\ UNCHANGED <<tool, firstToken, closing, fnVars, stopCalls, convVars, inVars, outVars, pulled, pushed, failures, closeLog>>

ClientStop ==
  /\ tool = "walker"
  /\ wpc # "idle"
  /\ stopCalls < MaxStopCalls
  /\ Stop
  /\ stopCalls' = stopCalls + 1
  /\ UNCHANGED <<tool, firstToken, closing, fnVars, clientPc, convVars, inVars, outVars, deq, pulled, pushed, failures, closeLog>>

\* ----------------------------------------------------------- bufio.Writer

\* The writer as a value: the bytes buffered, the bytes in the file, the
\* sticky error, and what the last call returned.
Writer(buf, file, sticky, ret) == [buffer |-> buf, outFile |-> file, bufErr |-> sticky, ret |-> ret]

\* How a write to the file goes: <<>> when it succeeds, <<n>> when it fails
\* after n bytes.
FileWriteFates == {<<>>} \cup {<<n>> : n \in 0..MaxShortWrite}

\* A failed write of bytes: the first fate[1] of them are in the file, the
\* others stay buffered, and the error sticks.
failedWrite(w, bytes, fate) ==
  Writer(SubSeq(bytes, fate[1] + 1, Len(bytes)), w.outFile \o SubSeq(bytes, 1, fate[1]), WriteError, WriteError)

\* Whether WriteString(s) reaches the file: len(s) > b.Available()
overflows(w, s) == w.bufErr = Nil /\ Len(s) > BufSize - Len(w.buffer)

WriteFates(w, s) == IF overflows(w, s) THEN FileWriteFates ELSE {<<>>}

RECURSIVE bufioWrite(_, _, _)
\* bufio.Writer.WriteString / Write: fill the buffer, flush it when full,
\* go on with the rest of s.
bufioWrite(w, s, fate) ==
  IF w.bufErr # Nil THEN Writer(w.buffer, w.outFile, w.bufErr, w.bufErr)
  ELSE IF Len(s) > BufSize - Len(w.buffer)
    THEN LET n == BufSize - Len(w.buffer)
             full == w.buffer \o SubSeq(s, 1, n)
         IN IF fate # <<>>
              THEN failedWrite(w, full, fate)
              ELSE bufioWrite(Writer(<<>>, w.outFile \o full, Nil, Nil), SubSeq(s, n + 1, Len(s)), fate)
    ELSE Writer(w.buffer \o s, w.outFile, Nil, Nil)

\* bufio.Writer.Flush
FlushFates(w) == IF w.bufErr = Nil /\ w.buffer # <<>> THEN FileWriteFates ELSE {<<>>}

bufioFlush(w, fate) ==
  IF w.bufErr # Nil THEN Writer(w.buffer, w.outFile, w.bufErr, w.bufErr)
  ELSE IF w.buffer = <<>> THEN Writer(<<>>, w.outFile, Nil, Nil)
  ELSE IF fate # <<>> THEN failedWrite(w, w.buffer, fate)
  ELSE Writer(<<>>, w.outFile \o w.buffer, Nil, Nil)

theWriter == Writer(buffer, outFile, bufErr, Nil)

\* ------------------------------------------------ the bytes of the array file

\* One record object as json.Indent lays it out, taken as one unit; n is the
\* ordinal of the walk result it was made from.
Obj(n) == "{" \o ToString(n) \o "}"

\* ------------------------- Converter over a Walker (filesystem to Consul)

\* Converter.setError / Converter.setErr
setErr(old, err) == IF old = Nil THEN err ELSE old

\* fmt.Errorf("while processing input entry #%d: %v", c.count, err)
entryError(n, err) == "while processing input entry #" \o ToString(n) \o ": " \o err

\* NewConverter, called from main; on an error main ends with app.Fatalf.
NewConverterWalker ==
  /\ tool = "convertWalker"
  /\ mpc = "start"
  /\ IF invalidConsulPath(Clean(consulPath))
       THEN /\ failures' = Append(failures, InvalidPathError)
            /\ exit' = "failed"
            /\ run' = "failed"
            /\ mpc' = "exited"
            /\ UNCHANGED <<walkerVars, enq, outVars, opened>>
       ELSE \/ /\ failures' = Append(failures, OpenOutputError)
               /\ exit' = "failed"
               /\ run' = "failed"
               /\ mpc' = "exited"
               /\ UNCHANGED <<walkerVars, enq, outVars, opened>>
            \/ /\ outState' = "open"
               /\ outFile' = <<>>
               /\ NewWalker
               /\ opened' = {"output", "walker"}
               /\ run' = "running"
               /\ mpc' = "ConvertAll"
               /\ UNCHANGED <<exit, buffer, bufErr, failures>>
  /\ UNCHANGED <<tool, firstToken, closing, fnVars, clientVars, consulPath, count, firstErr, retErr, defers, inVars, deq, pulled, pushed, closeLog>>

\* What may happen to the file of a walk result in Converter.convert: it is
\* read and decoded, os.Open fails, or its contents do not decode.
ReadOutcomes == {Nil, OpenInputError, DecodeError}

trailer == <<"\n", "]", "\n">>
headerFirst == <<"[", "\n", "\t">>
headerNext == <<",", "\n", "\t">>

\* if c.count == 1 { header = "[\n\t" } else { header = ",\n\t" }
header(n) == IF n = 1 THEN headerFirst ELSE headerNext

\* Converter.convert(datum): the error it returns and the writer afterwards.
convertDatum(w, datum) ==
  {[w |-> w, err |-> e] : e \in ReadOutcomes \ {Nil}}
  \cup {[w |-> bufioWrite(w, <<Obj(datum)>>, fate), err |-> bufioWrite(w, <<Obj(datum)>>, fate).ret] :
          fate \in WriteFates(w, <<Obj(datum)>>)}

\* One call of Converter.Convert with the (datum, err) of walker.Next: the
\* writer afterwards, the error given to setError (Nil: none), the count, the
\* record pushed to the output (0: none), and what Convert returns.
ConvertResult(w, err, n, push, more) == [w |-> w, err |-> err, count |-> n, push |-> push, more |-> more]

ConvertOutcomes(w, datum, err) ==
  IF err # Nil THEN {ConvertResult(w, err, count, 0, FALSE)}
  ELSE IF datum = NilResult
    THEN {ConvertResult(bufioWrite(w, trailer, fate), bufioWrite(w, trailer, fate).ret, count, 0, FALSE) :
            fate \in WriteFates(w, trailer)}
    ELSE LET n == count + 1
             heads == {bufioWrite(w, header(n), fate) : fate \in WriteFates(w, header(n))}
         IN {ConvertResult(h, h.ret, n, 0, FALSE) : h \in {x \in heads : x.ret # Nil}}
            \cup UNION {{IF c.err # Nil
                           THEN ConvertResult(c.w, entryError(n, c.err), n, 0, FALSE)
                           ELSE ConvertResult(c.w, Nil, n, datum, TRUE) :
                         c \in convertDatum(h, datum)} :
                        h \in {x \in heads : x.ret = Nil}}

\* ConvertAll: for c.Convert() {}
ConvertWalker ==
  /\ tool = "convertWalker"
  /\ mpc = "ConvertAll"
  /\ WalkerNext
  /\ \E o \in ConvertOutcomes(theWriter, recvResult, nextErr) :
       /\ buffer' = o.w.buffer
       /\ outFile' = o.w.outFile
       /\ bufErr' = o.w.bufErr
       /\ count' = o.count
       /\ firstErr' = IF o.err # Nil THEN setErr(firstErr, o.err) ELSE firstErr
       /\ failures' = IF o.err # Nil THEN Append(failures, o.err) ELSE failures
       /\ pulled' = IF recvResult # NilResult THEN Append(pulled, recvResult) ELSE pulled
       /\ pushed' = IF o.push # 0 THEN Append(pushed, o.push) ELSE pushed
       /\ mpc' = IF o.more THEN "ConvertAll" ELSE "Err"
       /\ run' = IF o.more THEN run ELSE IF o.err # Nil THEN "failed" ELSE "succeeded"
  /\ UNCHANGED <<tool, firstToken, closing, fnVars, clientVars, consulPath, retErr, defers, exit, opened, inVars, outState, closeLog>>

\* ConvertAll returns c.Err() to main: app.Fatalf ends the process at once;
\* otherwise main returns and the deferred c.Close() runs.
MainAfterConvertAllWalker ==
  /\ tool = "convertWalker"
  /\ mpc = "Err"
  /\ IF firstErr # Nil
       THEN /\ exit' = "failed"
            /\ mpc' = "exited"
       ELSE /\ mpc' = "Close"
            /\ UNCHANGED exit
  /\ UNCHANGED <<tool, firstToken, closing, fnVars, walkerVars, clientVars, consulPath, count, firstErr, retErr, defers, run, opened, inVars, outVars, histVars>>

\* defer c.Close() // nolint: errcheck
\* Converter.Close: Flush, then outputFile.Close(); main drops the error.
CloseWalker ==
  /\ tool = "convertWalker"
  /\ mpc = "Close"
  /\ \E fate \in FlushFates(theWriter) :
       LET w == bufioFlush(theWriter, fate) IN
         /\ buffer' = w.buffer
         /\ outFile' = w.outFile
         /\ bufErr' = w.bufErr
         /\ IF w.ret # Nil
              THEN /\ failures' = Append(failures, w.ret)
                   /\ UNCHANGED outState
              ELSE /\ outState' = "closed"
                   /\ \/ failures' = Append(failures, CloseError)
                      \/ UNCHANGED failures
  /\ exit' = "ok"
  /\ mpc' = "exited"
  /\ UNCHANGED <<tool, firstToken, closing, fnVars, walkerVars, clientVars, consulPath, count, firstErr, retErr, defers, run, opened, inVars, enq, deq, pulled, pushed, closeLog>>

\* ---------------------------------------------------------- filesystemWalker
\* The walker of filesystemBackend; results holds its keys channel, werr its
\* err field, and the key "" is NilResult.

\* newFilesystemWalker: make(chan string, 10) and start the goroutine.
newFilesystemWalker ==
  /\ wpc' = "walk"
  /\ UNCHANGED <<files, skips, walkRet, results, resultsClosed, werr, stop, stopCloses, stopped, sending, enq>>

\* filesystemWalker.walk, up to the next send: backend.List fails (the walk
\* returns the error through every level), a key ending in "/" is walked into
\* and listed, or the key of a file is sent.
walkStep(kind) ==
  /\ tool = "convertFsConsul"
  /\ exit = "running"
  /\ wpc = "walk"
  /\ \/ kind = "err"
     \/ kind = "regular" /\ files < MaxFiles
     \/ kind = "nonregular" /\ skips < MaxSkips
  /\ IF kind = "err"
       THEN /\ walkRet' = ListError
            /\ wpc' = "ret"
            /\ UNCHANGED <<files, skips, sending>>
       ELSE IF kind = "nonregular"
         THEN /\ skips' = skips + 1
              /\ UNCHANGED <<wpc, walkRet, files, sending>>
         ELSE /\ files' = files + 1
              /\ sending' = files + 1
              /\ wpc' = "send"
              /\ UNCHANGED <<walkRet, skips>>
  /\ UNCHANGED <<results, resultsClosed, werr, stop, stopCloses, stopped, enq, consumerVars>>

walk == \E kind \in FileKinds : walkStep(kind)

\* w.keys <- p
walkSend ==
  /\ tool = "convertFsConsul"
  /\ exit = "running"
  /\ wpc = "send"
  /\ sendReady(results)
  /\ results' = Append(results, sending)
  /\ enq' = Append(enq, sending)
  /\ sending' = NilResult
  /\ wpc' = "walk"
  /\ UNCHANGED <<files, skips, walkRet, resultsClosed, werr, stop, stopCloses, stopped, consumerVars>>

\* The outermost walk has listed everything and returns nil.
walkReturns ==
  /\ tool = "convertFsConsul"
  /\ exit = "running"
  /\ wpc = "walk"
  /\ walkRet' = Nil
  /\ wpc' = "ret"
  /\ UNCHANGED <<files, skips, results, resultsClosed, werr, stop, stopCloses, stopped, sending, enq, consumerVars>>

\* The goroutine: if err := w.walk(ctx, root); err != nil { w.err = err }
filesystemWalkerStoreErr ==
  /\ tool = "convertFsConsul"
  /\ exit = "running"
  /\ wpc = "ret"
  /\ werr' = IF walkRet # Nil THEN walkRet ELSE werr
  /\ wpc' = "close"
  /\ UNCHANGED <<files, skips, walkRet, results, resultsClosed, stop, stopCloses, stopped, sending, enq, consumerVars>>

\* The goroutine: close(w.keys)
filesystemWalkerClose ==
  /\ tool = "convertFsConsul"
  /\ exit = "running"
  /\ wpc = "close"
  /\ resultsClosed' = TRUE
  /\ wpc' = "done"
  /\ UNCHANGED <<files, skips, walkRet, results, werr, stop, stopCloses, stopped, sending, enq, consumerVars>>

\* filesystemWalker.Next: k, ok := <-w.keys; if !ok { err = w.err }
filesystemWalkerNextErr == IF results = <<>> THEN werr ELSE Nil

filesystemWalkerNext ==
  /\ NextReady
  /\ deq' = Append(deq, [result |-> recvResult, err |-> filesystemWalkerNextErr])
  /\ results' = IF results # <<>> THEN Tail(results) ELSE results
  /\ UNCHANGED <<wpc, files, skips, walkRet, resultsClosed, werr, stop, stopCloses, stopped, sending, enq>>

\* ------------------------------------ convert (filesystem to Consul backends)

\* openFilesystemBackend: file.NewFileBackend fails, or the walker is started.
\* No Close is deferred yet when it fails.
openFilesystemBackend ==
  /\ tool = "convertFsConsul"
  /\ mpc = "start"
  /\ \/ /\ retErr' = OpenBackendError
        /\ failures' = Append(failures, OpenBackendError)
        /\ mpc' = "return"
        /\ run' = "failed"
        /\ UNCHANGED <<walkerVars, enq, defers, opened>>
     \/ /\ newFilesystemWalker
        /\ defers' = Append(defers, "fb")
        /\ opened' = opened \cup {"fb"}
        /\ mpc' = "openConsulBackend"
        /\ UNCHANGED <<retErr, failures, run>>
  /\ UNCHANGED <<tool, firstToken, closing, fnVars, clientVars, consulPath, count, firstErr, exit, inVars, outVars, deq, pulled, pushed, closeLog>>

\* consulBackend.writeHeader
writeHeader(buf) == buf \o <<"[", "\n">>

\* openConsulBackend: the path check, os.OpenFile with O_TRUNC, writeHeader.
openConsulBackend ==
  /\ tool = "convertFsConsul"
  /\ mpc = "openConsulBackend"
  /\ IF invalidConsulPath(Clean(consulPath))
       THEN /\ retErr' = InvalidPathError
            /\ failures' = Append(failures, InvalidPathError)
            /\ mpc' = "return"
            /\ run' = "failed"
            /\ UNCHANGED <<defers, outVars, opened>>
       ELSE \/ /\ retErr' = OpenOutputError
               /\ failures' = Append(failures, OpenOutputError)
               /\ mpc' = "return"
               /\ run' = "failed"
               /\ UNCHANGED <<defers, outVars, opened>>
            \/ /\ outState' = "open"
               /\ outFile' = <<>>
               /\ buffer' = writeHeader(<<>>)
               /\ defers' = Append(defers, "cb")
               /\ opened' = opened \cup {"cb"}
               /\ run' = "running"
               /\ mpc' = "ReadEntry"
               /\ UNCHANGED <<retErr, failures, bufErr>>
  /\ UNCHANGED <<tool, firstToken, closing, fnVars, walkerVars, clientVars, consulPath, count, firstErr, exit, inVars, enq, deq, pulled, pushed, closeLog>>

\* filesystemBackend.ReadEntry: the walker's error, io.EOF on the key "",
\* or what backend.Get returns for the key.
GetOutcomes == {Nil, GetError}

\* fb.ReadEntry in the loop of convert: io.EOF breaks the loop and convert
\* returns nil, another error is returned, an entry goes on to WriteEntry
\* (convertEntry returns no error).
ReadEntryFs ==
  /\ tool = "convertFsConsul"
  /\ mpc = "ReadEntry"
  /\ filesystemWalkerNext
  /\ IF filesystemWalkerNextErr # Nil
       THEN /\ retErr' = filesystemWalkerNextErr
            /\ failures' = Append(failures, filesystemWalkerNextErr)
            /\ mpc' = "return"
            /\ run' = "failed"
            /\ UNCHANGED pulled
       ELSE IF recvResult = NilResult
         THEN /\ mpc' = "return"
              /\ run' = "succeeded"
              /\ UNCHANGED <<retErr, failures, pulled>>
         ELSE \E got \in GetOutcomes :
                IF got # Nil
                  THEN /\ retErr' = got
                       /\ failures' = Append(failures, got)
                       /\ mpc' = "return"
                       /\ run' = "failed"
                       /\ UNCHANGED pulled
                  ELSE /\ pulled' = Append(pulled, recvResult)
                       /\ mpc' = "WriteEntry"
                       /\ UNCHANGED <<retErr, failures, run>>
  /\ UNCHANGED <<tool, firstToken, closing, fnVars, clientVars, consulPath, count, firstErr, defers, exit, opened, inVars, outVars, pushed, closeLog>>

\* consulBackend.flush: buffer.WriteTo(file) and Reset when the buffer holds
\* bytes; a failed WriteTo leaves the unwritten bytes in the buffer.
BufferFates(buf) == IF buf # <<>> THEN FileWriteFates ELSE {<<>>}

flush(w, fate) ==
  IF w.buffer = <<>> THEN Writer(<<>>, w.outFile, Nil, Nil)
  ELSE IF fate # <<>> /\ fate[1] < Len(w.buffer)
    THEN Writer(SubSeq(w.buffer, fate[1] + 1, Len(w.buffer)),
                w.outFile \o SubSeq(w.buffer, 1, fate[1]), Nil, WriteError)
    ELSE Writer(<<>>, w.outFile \o w.buffer, Nil, Nil)

\* consulBackend.WriteEntry, after the flush: "\t", the indented object, ",\n"
entryBytes(n) == <<"\t", Obj(n), ",", "\n">>

\* cb.WriteEntry in the loop of convert
WriteEntryConsul ==
  /\ tool = "convertFsConsul"
  /\ mpc = "WriteEntry"
  /\ \E fate \in BufferFates(buffer) :
       LET w == flush(theWriter, fate) IN
         /\ outFile' = w.outFile
         /\ IF w.ret # Nil
              THEN /\ buffer' = w.buffer
                   /\ retErr' = w.ret
                   /\ failures' = Append(failures, w.ret)
                   /\ mpc' = "return"
                   /\ run' = "failed"
                   /\ UNCHANGED pushed
              ELSE /\ buffer' = w.buffer \o entryBytes(pulled[Len(pulled)])
                   /\ pushed' = Append(pushed, pulled[Len(pulled)])
                   /\ mpc' = "ReadEntry"
                   /\ UNCHANGED <<retErr, failures, run>>
  /\ UNCHANGED <<tool, firstToken, closing, fnVars, walkerVars, clientVars, consulPath, count, firstErr, defers, exit, opened, inVars, outState, bufErr, enq, deq, pulled, closeLog>>

\* consulBackend.writeTrailer: drop the last two bytes of the buffer when it
\* holds two or more, then "\n]\n"
writeTrailer(buf) ==
  (IF Len(buf) >= 2 THEN SubSeq(buf, 1, Len(buf) - 2) ELSE buf) \o <<"\n", "]", "\n">>

\* The deferred functions of convert: if closeError := x.Close();
\* closeError != nil && err == nil { err = closeError }
deferredErrOverwrite(err, closeError) == IF closeError # Nil THEN closeError ELSE err
deferredErr(err, closeError) == IF closeError # Nil /\ err = Nil THEN closeError ELSE err

\* Every deferred function runs, whatever the one before it returned.
remainingDefersNoneAfterError(ds, closeError) == IF closeError # Nil THEN <<>> ELSE SubSeq(ds, 1, Len(ds) - 1)
remainingDefers(ds, closeError) == SubSeq(ds, 1, Len(ds) - 1)

\* The deferred cb.Close(): writeTrailer, flush, file.Close().
CloseConsulBackend ==
  /\ tool = "convertFsConsul"
  /\ mpc = "return"
  /\ defers # <<>>
  /\ defers[Len(defers)] = "cb"
  /\ \E fate \in FileWriteFates, closeError \in {Nil, CloseError} :
       LET w == flush(Writer(writeTrailer(buffer), outFile, Nil, Nil), fate)
           e == IF w.ret # Nil THEN CloseWriteError ELSE closeError
       IN /\ buffer' = w.buffer
          /\ outFile' = w.outFile
          /\ outState' = IF w.ret # Nil THEN outState ELSE "closed"
          /\ retErr' = deferredErr(retErr, e)
          /\ failures' = IF e # Nil THEN Append(failures, e) ELSE failures
          /\ defers' = remainingDefers(defers, e)
  /\ closeLog' = Append(closeLog, "cb")
  /\ UNCHANGED <<tool, firstToken, closing, fnVars, walkerVars, clientVars, consulPath, mpc, count, firstErr, exit, run, opened, inVars, bufErr, enq, deq, pulled, pushed>>

\* The deferred fb.Close(): filesystemBackend.Close returns nil.
CloseFilesystemBackend ==
  /\ tool = "convertFsConsul"
  /\ mpc = "return"
  /\ defers # <<>>
  /\ defers[Len(defers)] = "fb"
  /\ retErr' = deferredErr(retErr, Nil)
  /\ defers' = remainingDefers(defers, Nil)
  /\ closeLog' = Append(closeLog, "fb")
  /\ UNCHANGED <<tool, firstToken, closing, fnVars, walkerVars, clientVars, consulPath, mpc, count, firstErr, exit, run, opened, inVars, outVars, enq, deq, pulled, pushed, failures>>

\* --------------------------------------------------- the Consul export (input)

\* The keys and the base64 values of the elements of the input array: v/x,
\* v/d/x, o/x, vx/y, v//x, v, v/ and v/../x.
InputKeys ==
  {<<"v", "/", "x">>, <<"v", "/", "d", "/", "x">>, <<"o", "/", "x">>, <<"v", "x", "/", "y">>,
   <<"v", "/", "/", "x">>, <<"v">>, <<"v", "/">>, <<"v", "/", ".", ".", "/", "x">>}
InputValues == {"QQ==", "!"}

\* What the decoder finds next in the input: the end of the array (More()
\* is false at "]" and at the end of the file alike), an element that does not
\* decode, or an element.
Malformed == [Key |-> <<>>, Value |-> "malformed"]
ConsulEntries == [Key : InputKeys, Value : InputValues]

\* base64.StdEncoding.DecodeString and EncodeToString
DecodeString(v) ==
  CASE v = "QQ==" -> [bytes |-> "A", err |-> Nil]
    [] v = "" -> [bytes |-> "", err |-> Nil]
    [] OTHER -> [bytes |-> "", err |-> Base64Error]

EncodeToString(b) == CASE b = "A" -> "QQ==" [] OTHER -> ""

\* keyHasPrefix(key, prefix)
keyHasPrefixSubstring(key, prefix) ==
  Len(key) >= Len(prefix) /\ SubSeq(key, 1, Len(prefix)) = prefix
keyHasPrefix(key, prefix) ==
  LET ke == Split(key)
      pe == Split(prefix)
  IN IF Len(ke) < Len(pe) THEN FALSE
     ELSE \A i \in DOMAIN pe : ke[i] = pe[i]

\* keyStripPrefix(key, prefix)
keyStripPrefix(key, prefix) ==
  LET ke == Split(key)
      pe == Split(prefix)
  IN IF Len(ke) < Len(pe) THEN Join(ke)
     ELSE IF \E i \in DOMAIN pe : ke[i] # pe[i] THEN Join(ke)
     ELSE Join(SubSeq(ke, Len(pe) + 1, Len(ke)))

\* convertEntry(entry, keyPrefix): the Vault entry, or the base64 error.
convertEntry(e, keyPrefix) ==
  [entry |-> [Key |-> keyStripPrefix(e.Key, keyPrefix), Value |-> DecodeString(e.Value).bytes],
   err |-> DecodeString(e.Value).err]

\* os.OpenFile(p, O_WRONLY|O_CREATE|O_TRUNC) and the write of c: the file f
\* of the tree holds c and nothing of what it held.
PutAppending(t, f, c) ==
  IF f \in DOMAIN t THEN (f :> [Key |-> t[f].Key \o c.Key, Value |-> t[f].Value \o c.Value]) @@ t
  ELSE (f :> c) @@ t
Put(t, f, c) == (f :> c) @@ t

\* ------------------------------------ convert (Consul to filesystem backends)

\* openConsulBackend: the path check, os.Open, eatHeader (the file is closed
\* again when the first token is not "[").  No Close is deferred yet when it
\* fails.
openConsulBackendInput ==
  /\ tool = "convertConsulFs"
  /\ mpc = "start"
  /\ IF invalidConsulPath(Clean(consulPath))
       THEN /\ retErr' = InvalidPathError
            /\ failures' = Append(failures, InvalidPathError)
            /\ mpc' = "return"
            /\ run' = "failed"
            /\ UNCHANGED <<defers, opened, inState>>
       ELSE \/ /\ retErr' = OpenInputError
               /\ failures' = Append(failures, OpenInputError)
               /\ mpc' = "return"
               /\ run' = "failed"
               /\ UNCHANGED <<defers, opened, inState>>
            \/ /\ eatHeader(firstToken) # Nil
               /\ retErr' = eatHeader(firstToken)
               /\ failures' = Append(failures, eatHeader(firstToken))
               /\ inState' = "closed"
               /\ mpc' = "return"
               /\ run' = "failed"
               /\ UNCHANGED <<defers, opened>>
            \/ /\ eatHeader(firstToken) = Nil
               /\ inState' = "open"
               /\ defers' = Append(defers, "cb")
               /\ opened' = opened \cup {"cb"}
               /\ mpc' = "openFilesystemBackend"
               /\ UNCHANGED <<retErr, failures, run>>
  /\ UNCHANGED <<tool, firstToken, closing, fnVars, walkerVars, clientVars, consulPath, count, firstErr, exit, decoded, entry, tree, dirs, input,
                 outVars, enq, deq, pulled, pushed, closeLog>>

\* openFilesystemBackend: file.NewFileBackend
openFilesystemBackendOutput ==
  /\ tool = "convertConsulFs"
  /\ mpc = "openFilesystemBackend"
  /\ \/ /\ retErr' = OpenBackendError
        /\ failures' = Append(failures, OpenBackendError)
        /\ mpc' = "return"
        /\ run' = "failed"
        /\ UNCHANGED <<defers, opened>>
     \/ /\ defers' = Append(defers, "fb")
        /\ opened' = opened \cup {"fb"}
        /\ run' = "running"
        /\ mpc' = "ReadEntry"
        /\ UNCHANGED <<retErr, failures>>
  /\ UNCHANGED <<tool, firstToken, closing, fnVars, walkerVars, clientVars, consulPath, count, firstErr, exit, inVars, outVars, enq, deq, pulled,
                 pushed, closeLog>>

\* consulBackend.ReadEntry, one turn of its scan loop: io.EOF when More() is
\* false (convert breaks its loop and returns nil), the error of Decode, an
\* entry outside the prefix (scan on), an entry under it (returned).
ReadEntryConsul ==
  /\ tool = "convertConsulFs"
  /\ mpc = "ReadEntry"
  /\ \/ \E c \in Closings :
          /\ closing = Unread
          /\ closing' = c
          /\ IF ~More(peek(c))
               THEN /\ mpc' = "return"
                    /\ run' = "succeeded"
                    /\ UNCHANGED <<retErr, failures, decoded, input, pulled>>
               ELSE /\ decoded' = decoded + 1
                    /\ input' = Append(input, Malformed)
                    /\ retErr' = DecodeError
                    /\ failures' = Append(failures, DecodeError)
                    /\ mpc' = "return"
                    /\ run' = "failed"
                    /\ UNCHANGED pulled
     \/ /\ decoded < MaxRecords
        /\ closing = Unread
        /\ More("{")
        /\ UNCHANGED closing
        /\ \E e \in ConsulEntries \cup {Malformed} :
             /\ decoded' = decoded + 1
             /\ input' = Append(input, e)
             /\ IF e = Malformed
                  THEN /\ retErr' = DecodeError
                       /\ failures' = Append(failures, DecodeError)
                       /\ mpc' = "return"
                       /\ run' = "failed"
                       /\ UNCHANGED pulled
                  ELSE IF keyHasPrefix(e.Key, Clean(consulPath))
                    THEN /\ pulled' = Append(pulled, e)
                         /\ mpc' = "convertEntry"
                         /\ UNCHANGED <<retErr, failures, run>>
                    ELSE UNCHANGED <<retErr, failures, run, mpc, pulled>>
  /\ UNCHANGED <<tool, firstToken, fnVars, walkerVars, clientVars, consulPath, count, firstErr, defers, exit, opened, inState, entry, tree,
                 dirs, outVars, enq, deq, pushed, closeLog>>

\* ve, conversionError := convertEntry(ce, consulPath): the prefix given is
\* the flag as typed, not the cleaned one ReadEntry filters with.
convertEntryConsulFs ==
  /\ tool = "convertConsulFs"
  /\ mpc = "convertEntry"
  /\ LET c == convertEntry(pulled[Len(pulled)], consulPath) IN
       IF c.err # Nil
         THEN /\ retErr' = c.err
              /\ failures' = Append(failures, c.err)
              /\ mpc' = "return"
              /\ run' = "failed"
              /\ UNCHANGED entry
         ELSE /\ entry' = c.entry
              /\ mpc' = "WriteEntry"
              /\ UNCHANGED <<retErr, failures, run>>
  /\ UNCHANGED <<tool, firstToken, closing, fnVars, walkerVars, clientVars, consulPath, count, firstErr, defers, exit, opened, inState, decoded,
                 tree, dirs, input, outVars, enq, deq, pulled, pushed, closeLog>>

\* fb.WriteEntry: backend.Put stores the entry under its key, or fails.
WriteEntryFs ==
  /\ tool = "convertConsulFs"
  /\ mpc = "WriteEntry"
  /\ \/ /\ retErr' = PutError
        /\ failures' = Append(failures, PutError)
        /\ mpc' = "return"
        /\ run' = "failed"
        /\ UNCHANGED <<tree, pushed>>
     \/ /\ tree' = Put(tree, entry.Key, entry)
        /\ pushed' = Append(pushed, entry)
        /\ mpc' = "ReadEntry"
        /\ UNCHANGED <<retErr, failures, run>>
  /\ entry' = NoEntry
  /\ UNCHANGED <<tool, firstToken, closing, fnVars, walkerVars, clientVars, consulPath, count, firstErr, defers, exit, opened, inState, decoded,
                 dirs, input, outVars, enq, deq, pulled, closeLog>>

\* The deferred fb.Close(): filesystemBackend.Close returns nil.
CloseFilesystemBackendOutput ==
  /\ tool = "convertConsulFs"
  /\ mpc = "return"
  /\ defers # <<>>
  /\ defers[Len(defers)] = "fb"
  /\ retErr' = deferredErr(retErr, Nil)
  /\ defers' = remainingDefers(defers, Nil)
  /\ closeLog' = Append(closeLog, "fb")
  /\ UNCHANGED <<tool, firstToken, closing, fnVars, walkerVars, clientVars, consulPath, mpc, count, firstErr, exit, run, opened, inVars, outVars,
                 enq, deq, pulled, pushed, failures>>

\* The deferred cb.Close(): be.file.Close()
CloseConsulBackendInput ==
  /\ tool = "convertConsulFs"
  /\ mpc = "return"
  /\ defers # <<>>
  /\ defers[Len(defers)] = "cb"
  /\ \E closeError \in {Nil, CloseError} :
       /\ retErr' = deferredErr(retErr, closeError)
       /\ failures' = IF closeError # Nil THEN Append(failures, closeError) ELSE failures
       /\ defers' = remainingDefers(defers, closeError)
  /\ inState' = "closed"
  /\ closeLog' = Append(closeLog, "cb")
  /\ UNCHANGED <<tool, firstToken, closing, fnVars, walkerVars, clientVars, consulPath, mpc, count, firstErr, exit, run, opened, decoded, entry,
                 tree, dirs, input, outVars, enq, deq, pulled, pushed>>

\* ------------------------------- Converter (Consul to filesystem, with prefix)

\* filepath.Clean(outputPath), the root of the output tree
outputRootPath == <<"r">>

\* path.Split(key): the directory with its final slash, and the file name.
pathSplit(key) ==
  LET slashes == {i \in DOMAIN key : key[i] = "/"}
      i == IF slashes = {} THEN 0 ELSE CHOOSE j \in slashes : \A k \in slashes : k <= j
  IN [dir |-> SubSeq(key, 1, i), file |-> SubSeq(key, i + 1, Len(key))]

\* filepath.Join: the non-empty elements joined by "/", cleaned.
filepathJoin(elems) == Clean(Join(SelectSeq(elems, LAMBDA e : e # <<>>)))

\* filepath.Dir(p)
filepathDir(p) == Clean(pathSplit(p).dir)

\* os.MkdirAll(d): d and every directory above it exist afterwards.
MkdirAll(ds, d) ==
  ds \cup {Join(SubSeq(Split(d), 1, k)) : k \in 1..Len(Split(d))}

\* openFile: p := filepath.Join(root, kdir, "_"+kbase)
leafPath(root, key) == filepathJoin(<<root, pathSplit(key).dir, <<"_">> \o pathSplit(key).file>>)

\* json.NewEncoder(f).Encode(vaultEntry): the Value goes out in base64.
Encode(e) == [Key |-> e.Key, Value |-> EncodeToString(e.Value)]

\* A leaf that was created or truncated and not written.
EmptyFile == [Key |-> <<>>, Value |-> "empty"]

\* NewConverter, called from main; on an error main ends with app.Fatalf.
NewConverterConsul ==
  /\ tool = "converterConsulFs"
  /\ mpc = "start"
  /\ IF invalidConsulPath(Clean(consulPath))
       THEN /\ failures' = Append(failures, InvalidPathError)
            /\ exit' = "failed"
            /\ run' = "failed"
            /\ mpc' = "exited"
            /\ UNCHANGED <<opened, inState, dirs>>
       ELSE \/ \E e \in {MkdirError} :
                 /\ failures' = Append(failures, e)
                 /\ exit' = "failed"
                 /\ run' = "failed"
                 /\ mpc' = "exited"
                 /\ UNCHANGED <<opened, inState, dirs>>
            \/ \E e \in {ChmodError, OpenInputError} :
                 /\ failures' = Append(failures, e)
                 /\ dirs' = MkdirAll(dirs, outputRootPath)
                 /\ exit' = "failed"
                 /\ run' = "failed"
                 /\ mpc' = "exited"
                 /\ UNCHANGED <<opened, inState>>
            \/ /\ eatHeader(firstToken) # Nil
               /\ failures' = Append(failures, eatHeader(firstToken))
               /\ dirs' = MkdirAll(dirs, outputRootPath)
               /\ inState' = "closed"
               /\ exit' = "failed"
               /\ run' = "failed"
               /\ mpc' = "exited"
               /\ UNCHANGED opened
            \/ /\ eatHeader(firstToken) = Nil
               /\ dirs' = MkdirAll(dirs, outputRootPath)
               /\ inState' = "open"
               /\ opened' = {"input"}
               /\ run' = "running"
               /\ mpc' = "ConvertAll"
               /\ UNCHANGED <<exit, failures>>
  /\ UNCHANGED <<tool, firstToken, closing, fnVars, walkerVars, clientVars, consulPath, count, firstErr, retErr, defers, decoded, entry, tree,
                 input, outVars, enq, deq, pulled, pushed, closeLog>>

\* Converter.convert on the element e: the error it returns, the tree and
\* the directories afterwards, and the entry written (NoEntry: none).
convertResult(err, t, ds, push) == [err |-> err, tree |-> t, dirs |-> ds, push |-> push]

\* Over the output tree t with the directories ds.
convertOutcomesOn(t, ds, e) ==
  IF e = Malformed THEN {convertResult(DecodeError, t, ds, NoEntry)}
  ELSE IF ~keyHasPrefix(e.Key, Clean(consulPath)) THEN {convertResult(Nil, t, ds, NoEntry)}
  ELSE LET c == convertEntry(e, Clean(consulPath))
           p == leafPath(outputRootPath, c.entry.Key)
           made == MkdirAll(ds, filepathDir(p))
       IN IF c.err # Nil THEN {convertResult(c.err, t, ds, NoEntry)}
          ELSE {convertResult(MkdirError, t, ds, NoEntry),
                convertResult(OpenLeafError, t, made, NoEntry),
                convertResult(EncodeError, Put(t, p, EmptyFile), made, NoEntry),
                convertResult(Nil, Put(t, p, Encode(c.entry)), made, c.entry)}

convertOutcomes(e) == convertOutcomesOn(tree, dirs, e)

\* What Convert returns after c.convert() gave err: false on an error, which
\* ends the loop of ConvertAll.
ConvertReturnsTrueAlways(err) == TRUE
ConvertReturns(err) == err = Nil

\* ConvertAll: for c.Convert() {}, one call of Convert.
ConvertConsul ==
  /\ tool = "converterConsulFs"
  /\ mpc = "ConvertAll"
  /\ \/ \E c \in Closings :
          /\ closing = Unread
          /\ closing' = c
          /\ IF ~More(peek(c))
               THEN /\ mpc' = "Err"
                    /\ run' = "succeeded"
                    /\ UNCHANGED <<count, firstErr, decoded, input, tree, dirs, pulled, pushed, failures>>
               ELSE /\ count' = count + 1
                    /\ decoded' = decoded + 1
                    /\ input' = Append(input, Malformed)
                    /\ firstErr' = setErr(firstErr, entryError(count + 1, DecodeError))
                    /\ failures' = Append(failures, entryError(count + 1, DecodeError))
                    /\ run' = "failed"
                    /\ mpc' = "Err"
                    /\ UNCHANGED <<tree, dirs, pulled, pushed>>
     \/ /\ decoded < MaxRecords
        /\ closing = Unread
        /\ More("{")
        /\ UNCHANGED closing
        /\ \E e \in ConsulEntries \cup {Malformed} :
             \E o \in convertOutcomes(e) :
               /\ count' = count + 1
               /\ decoded' = decoded + 1
               /\ input' = Append(input, e)
               /\ tree' = o.tree
               /\ dirs' = o.dirs
               /\ pulled' = IF e # Malformed /\ keyHasPrefix(e.Key, Clean(consulPath))
                              THEN Append(pulled, e) ELSE pulled
               /\ pushed' = IF o.push # NoEntry THEN Append(pushed, o.push) ELSE pushed
               /\ IF o.err # Nil
                    THEN /\ firstErr' = setErr(firstErr, entryError(count + 1, o.err))
                         /\ failures' = Append(failures, entryError(count + 1, o.err))
                         /\ run' = "failed"
                    ELSE UNCHANGED <<firstErr, failures, run>>
               /\ mpc' = IF ConvertReturns(o.err) THEN "ConvertAll" ELSE "Err"
  /\ UNCHANGED <<tool, firstToken, fnVars, walkerVars, clientVars, consulPath, retErr, defers, exit, opened, inState, entry, outVars, enq,
                 deq, closeLog>>

\* ConvertAll returns c.Err() to main: app.Fatalf ends the process at once;
\* otherwise main returns and the deferred c.Close() runs.
MainAfterConvertAllConsul ==
  /\ tool = "converterConsulFs"
  /\ mpc = "Err"
  /\ IF firstErr # Nil
       THEN /\ exit' = "failed"
            /\ mpc' = "exited"
       ELSE /\ mpc' = "Close"
            /\ UNCHANGED exit
  /\ UNCHANGED <<tool, firstToken, closing, fnVars, walkerVars, clientVars, consulPath, count, firstErr, retErr, defers, run, opened, inVars,
                 outVars, histVars>>

\* defer c.Close() // nolint: errcheck
\* Converter.Close: c.inputFile.Close(); main drops the error.
CloseConsul ==
  /\ tool = "converterConsulFs"
  /\ mpc = "Close"
  /\ inState' = "closed"
  /\ \/ failures' = Append(failures, CloseError)
     \/ UNCHANGED failures
  /\ exit' = "ok"
  /\ mpc' = "exited"
  /\ UNCHANGED <<tool, firstToken, closing, fnVars, walkerVars, clientVars, consulPath, count, firstErr, retErr, defers, run, opened, decoded,
                 entry, tree, dirs, input, outVars, enq, deq, pulled, pushed, closeLog>>

\* ------------------ Converter that checks its entries (Consul to filesystem)

\* fmt.Errorf("entry %d: %v", c.count, err)
entryErr(n, err) == "entry " \o ToString(n) \o ": " \o err

\* The elements of the input array: those of ConsulEntries, one with an
\* empty key and one with an empty value.
ValidatingEntries ==
  ConsulEntries \cup {[Key |-> <<>>, Value |-> "QQ=="], [Key |-> <<"v", "/", "x">>, Value |-> ""]}

\* NewConverter(inputPath, outputPath), called from main; on an error main
\* ends with app.Fatalf.  The file is closed when the first token is not "[".
NewConverterValidating ==
  /\ tool = "converterValidating"
  /\ mpc = "start"
  /\ \/ \E e \in {MkdirError} :
          /\ failures' = Append(failures, e)
          /\ exit' = "failed"
          /\ run' = "failed"
          /\ mpc' = "exited"
          /\ UNCHANGED <<opened, inState, dirs>>
     \/ \E e \in {ChmodError, OpenInputError} :
          /\ failures' = Append(failures, e)
          /\ dirs' = MkdirAll(dirs, outputRootPath)
          /\ exit' = "failed"
          /\ run' = "failed"
          /\ mpc' = "exited"
          /\ UNCHANGED <<opened, inState>>
     \/ /\ eatHeader(firstToken) # Nil
        /\ failures' = Append(failures, eatHeader(firstToken))
        /\ dirs' = MkdirAll(dirs, outputRootPath)
        /\ inState' = "closed"
        /\ exit' = "failed"
        /\ run' = "failed"
        /\ mpc' = "exited"
        /\ UNCHANGED opened
     \/ /\ eatHeader(firstToken) = Nil
        /\ dirs' = MkdirAll(dirs, outputRootPath)
        /\ inState' = "open"
        /\ opened' = {"input"}
        /\ run' = "running"
        /\ mpc' = "ConvertAll"
        /\ UNCHANGED <<exit, failures>>
  /\ UNCHANGED <<tool, firstToken, closing, fnVars, walkerVars, clientVars, consulPath, count, firstErr, retErr, defers, decoded, entry, tree,
                 input, outVars, enq, deq, pulled, pushed, closeLog>>

\* convertEntry(entry): the key as it is, the value out of base64.
convertEntryValidating(e) ==
  [entry |-> [Key |-> e.Key, Value |-> DecodeString(e.Value).bytes], err |-> DecodeString(e.Value).err]

\* sanityCheckEntry(entry)
sanityCheckEntryKeyOnly(e) == IF Len(e.Key) = 0 THEN "key is empty" ELSE Nil
sanityCheckEntry(e) ==
  IF Len(e.Key) = 0 THEN "key is empty"
  ELSE IF e.Value = "" THEN "value is empty"
  ELSE Nil

\* The body of Convert after c.count++ on the element e: the error, the tree
\* and the directories afterwards, and the entry written (NoEntry: none).
convertOutcomesValidating(e) ==
  IF e = Malformed THEN {convertResult(DecodeError, tree, dirs, NoEntry)}
  ELSE LET c == convertEntryValidating(e)
           p == leafPath(outputRootPath, c.entry.Key)
           made == MkdirAll(dirs, filepathDir(p))
       IN IF c.err # Nil THEN {convertResult(c.err, tree, dirs, NoEntry)}
          ELSE IF sanityCheckEntry(c.entry) # Nil
            THEN {convertResult(sanityCheckEntry(c.entry), tree, dirs, NoEntry)}
          ELSE {convertResult(MkdirError, tree, dirs, NoEntry),
                convertResult(OpenLeafError, tree, made, NoEntry),
                convertResult(EncodeError, Put(tree, p, EmptyFile), made, NoEntry),
                convertResult(Nil, Put(tree, p, Encode(c.entry)), made, c.entry)}

\* ConvertAll: for c.Convert() {}, one call of Convert.
ConvertValidating ==
  /\ tool = "converterValidating"
  /\ mpc = "ConvertAll"
  /\ \/ \E c \in Closings :
          /\ closing = Unread
          /\ closing' = c
          /\ IF ~More(peek(c))
               THEN /\ mpc' = "Err"
                    /\ run' = "succeeded"
                    /\ UNCHANGED <<count, firstErr, decoded, input, tree, dirs, pulled, pushed, failures>>
               ELSE /\ count' = count + 1
                    /\ decoded' = decoded + 1
                    /\ input' = Append(input, Malformed)
                    /\ firstErr' = setErr(firstErr, entryErr(count + 1, DecodeError))
                    /\ failures' = Append(failures, entryErr(count + 1, DecodeError))
                    /\ run' = "failed"
                    /\ mpc' = "Err"
                    /\ UNCHANGED <<tree, dirs, pulled, pushed>>
     \/ /\ decoded < MaxRecords
        /\ closing = Unread
        /\ More("{")
        /\ UNCHANGED closing
        /\ \E e \in ValidatingEntries \cup {Malformed} :
             \E o \in convertOutcomesValidating(e) :
               /\ count' = count + 1
               /\ decoded' = decoded + 1
               /\ input' = Append(input, e)
               /\ tree' = o.tree
               /\ dirs' = o.dirs
               /\ pulled' = IF e # Malformed THEN Append(pulled, e) ELSE pulled
               /\ pushed' = IF o.push # NoEntry THEN Append(pushed, o.push) ELSE pushed
               /\ IF o.err # Nil
                    THEN /\ firstErr' = setErr(firstErr, entryErr(count + 1, o.err))
                         /\ failures' = Append(failures, entryErr(count + 1, o.err))
                         /\ mpc' = "Err"
                         /\ run' = "failed"
                    ELSE UNCHANGED <<firstErr, failures, mpc, run>>
  /\ UNCHANGED <<tool, firstToken, fnVars, walkerVars, clientVars, consulPath, retErr, defers, exit, opened, inState, entry, outVars, enq,
                 deq, closeLog>>

\* ConvertAll returns c.Err() to main: app.Fatalf ends the process at once;
\* otherwise main returns and the deferred c.Close() runs.
MainAfterConvertAllValidating ==
  /\ tool = "converterValidating"
  /\ mpc = "Err"
  /\ IF firstErr # Nil
       THEN /\ exit' = "failed"
            /\ mpc' = "exited"
       ELSE /\ mpc' = "Close"
            /\ UNCHANGED exit
  /\ UNCHANGED <<tool, firstToken, closing, fnVars, walkerVars, clientVars, consulPath, count, firstErr, retErr, defers, run, opened, inVars,
                 outVars, histVars>>

\* defer c.Close() // nolint: errcheck
\* Converter.Close: c.input.Close(); main drops the error.
CloseValidating ==
  /\ tool = "converterValidating"
  /\ mpc = "Close"
  /\ inState' = "closed"
  /\ \/ failures' = Append(failures, CloseError)
     \/ UNCHANGED failures
  /\ exit' = "ok"
  /\ mpc' = "exited"
  /\ UNCHANGED <<tool, firstToken, closing, fnVars, walkerVars, clientVars, consulPath, count, firstErr, retErr, defers, run, opened, decoded,
                 entry, tree, dirs, input, outVars, enq, deq, pulled, pushed, closeLog>>

\* convert has returned to main: app.Fatalf on an error.
mainAfterConvert ==
  /\ tool \in {"convertFsConsul", "convertConsulFs"}
  /\ mpc = "return"
  /\ defers = <<>>
  /\ exit' = IF retErr # Nil THEN "failed" ELSE "ok"
  /\ mpc' = "exited"
  /\ UNCHANGED <<tool, firstToken, closing, fnVars, walkerVars, clientVars, consulPath, count, firstErr, retErr, defers, run, opened, inVars, outVars, histVars>>

\* ------------------------------------------------------- the walk of a tree

\* The keys a tree may hold: a/1, a/2, b/1, a.b, a/d/1
KeyUniverse ==
  {<<"a", "/", "1">>, <<"a", "/", "2">>, <<"b", "/", "1">>, <<"a", ".", "b">>, <<"a", "/", "d", "/", "1">>}

\* A tree, as the keys of its files in the order the directories hold them
\* (the order of creation, say): no key twice.
Disks ==
  {d \in UNION {[1..k -> KeyUniverse] : k \in 0..MaxTreeKeys} :
     \A i, j \in DOMAIN d : d[i] = d[j] => i = j}

\* The byte of a character.
CharCode(c) ==
  CASE c = "." -> 46 [] c = "/" -> 47 [] c = "1" -> 49 [] c = "2" -> 50 [] c = "_" -> 95
    [] c = "a" -> 97 [] c = "b" -> 98 [] c = "d" -> 100 [] c = "o" -> 111 [] c = "r" -> 114
    [] c = "v" -> 118 [] c = "x" -> 120 [] OTHER -> 0

\* a < b for strings, byte by byte
LessStr(a, b) ==
  \/ Len(a) < Len(b) /\ SubSeq(b, 1, Len(a)) = a
  \/ \E i \in DOMAIN a :
       /\ i <= Len(b)
       /\ SubSeq(a, 1, i - 1) = SubSeq(b, 1, i - 1)
       /\ CharCode(a[i]) < CharCode(b[i])

RECURSIVE sortStrings(_)
\* sort.Strings(keys)
sortStringsNone(names) == names
sortStrings(names) ==
  IF names = <<>> THEN <<>>
  ELSE LET m == CHOOSE i \in DOMAIN names : \A j \in DOMAIN names : ~LessStr(names[j], names[i])
       IN <<names[m]>> \o sortStrings(SubSeq(names, 1, m - 1) \o SubSeq(names, m + 1, Len(names)))

\* The elements of a directory's path; the root is "".
dirElems(dir) == IF dir = <<>> THEN <<>> ELSE Split(dir)

\* The path is inside the directory.
inDir(path, dir) ==
  /\ Len(Split(path)) > Len(dirElems(dir))
  /\ SubSeq(Split(path), 1, Len(dirElems(dir))) = dirElems(dir)

RECURSIVE dirNames(_, _, _, _)
\* The names a directory holds, in the order it holds them, each once: a
\* name that other path elements follow is a directory, and is listed with
\* the given suffix.
dirNames(paths, dir, suffix, seen) ==
  IF paths = <<>> THEN <<>>
  ELSE LET segs == Split(Head(paths))
           n == Len(dirElems(dir)) + 1
           name == IF Len(segs) > n THEN segs[n] \o suffix ELSE segs[n]
       IN IF inDir(Head(paths), dir) /\ name \notin seen
            THEN <<name>> \o dirNames(Tail(paths), dir, suffix, seen \cup {name})
            ELSE dirNames(Tail(paths), dir, suffix, seen)

\* backend.List(ctx, prefix) of Vault's file backend: the keys of the files,
\* and the names of the directories with a "/" after them.
List(disk, prefix) == dirNames(disk, prefix, <<"/">>, {})

\* path.Join(prefix, k)
pathJoin(elems) == filepathJoin(elems)

RECURSIVE walkKeys(_, _)
RECURSIVE walkRange(_, _, _)
\* filesystemWalker.walk(ctx, prefix) when no List fails: the keys it sends,
\* in order.
walkKeys(disk, prefix) == walkRange(disk, prefix, sortStrings(List(disk, prefix)))

\* for _, k := range keys { ... }
walkRange(disk, prefix, keys) ==
  IF keys = <<>> THEN <<>>
  ELSE LET k == Head(keys)
           p == pathJoin(<<prefix, k>>)
       IN (IF k[Len(k)] = "/" THEN walkKeys(disk, p) ELSE <<p>>) \o walkRange(disk, prefix, Tail(keys))

\* The file of a key in the tree of Vault's file backend: the last element
\* of the key after an underscore.
diskPath(key) == pathSplit(key).dir \o <<"_">> \o pathSplit(key).file

diskPaths(disk) == [i \in DOMAIN disk |-> diskPath(disk[i])]

\* The names of a directory as filepath.Walk reads them: sorted.
readDirNames(paths, dir) == sortStrings(dirNames(paths, dir, <<>>, {}))

\* info.IsDir()
IsDir(paths, p) == \E i \in DOMAIN paths : inDir(paths[i], p)

RECURSIVE filepathWalk(_, _)
RECURSIVE filepathWalkRange(_, _, _)
\* filepath.Walk(root, w.walkFn) when nothing fails: the paths of the
\* WalkResults walkFn sends, in order (walkFn skips the directories).
filepathWalk(paths, dir) == filepathWalkRange(paths, dir, readDirNames(paths, dir))

filepathWalkRange(paths, dir, names) ==
  IF names = <<>> THEN <<>>
  ELSE LET p == pathJoin(<<dir, Head(names)>>)
       IN (IF IsDir(paths, p) THEN filepathWalk(paths, p) ELSE <<p>>)
            \o filepathWalkRange(paths, dir, Tail(names))

\* --------------------------------------------------- a function on its own

WalkCalls == [fn : {"walk", "filepathWalk"}, disk : Disks, values : {<<>>}]

\* An export of a tree and the import of the array it gives, by the Converter
\* or by convert over the backends.
RoundTripCalls ==
  {[fn |-> f, disk |-> d, values |-> v] :
     f \in {"roundTripConverter", "roundTripBackends"},
     d \in Disks \ {<<>>},
     v \in {<<>>, <<"A">>, <<"A", "">>, <<"", "A", "A">>}}

\* A run of the Converter over an array, and a second run over the same
\* array into the tree the first one left: disk holds the keys of the
\* elements and values their base64 values.
ReconvertCalls ==
  {[fn |-> "reconvert", disk |-> k, values |-> v] :
     k \in UNION {[1..n -> InputKeys] : n \in 1..MaxReruns},
     v \in UNION {[1..n -> {"QQ==", ""}] : n \in 1..MaxReruns}}

\* keyHasPrefix and keyStripPrefix of one key, held in disk, against the
\* prefix in consulPath: the keys of the input array and the empty key.
PrefixKeys == InputKeys \cup {<<>>}
PrefixCalls == {[fn |-> "prefix", disk |-> <<k>>, values |-> <<>>] : k \in PrefixKeys}

Calls == WalkCalls \cup PrefixCalls \cup {c \in RoundTripCalls \cup ReconvertCalls : Len(c.values) = Len(c.disk)}

FunctionsInit ==
  /\ tool = "functions"
  /\ consulPath \in ConsulPaths
  /\ firstToken = "["
  /\ call \in Calls
  /\ Started

\* What a call leaves alone.
programVars == <<tool, firstToken, closing, call, walkerVars, clientVars, convVars, inVars, outVars, histVars>>

\* The walk of filesystemWalker over the whole tree.
CallFilesystemWalk ==
  /\ tool = "functions"
  /\ call.fn = "walk"
  /\ ~callRet.done
  /\ callRet' = [done |-> TRUE, value |-> walkKeys(call.disk, <<>>)]
  /\ UNCHANGED programVars

\* The walk of a Walker over the whole tree.
CallFilepathWalk ==
  /\ tool = "functions"
  /\ call.fn = "filepathWalk"
  /\ ~callRet.done
  /\ callRet' = [done |-> TRUE, value |-> filepathWalk(diskPaths(call.disk), <<>>)]
  /\ UNCHANGED programVars

\* keyAddPrefix(key, prefix)
keyAddPrefix(key, prefix) ==
  IF prefix = <<>> THEN key
  ELSE Join(Split(prefix) \o Split(key))

\* convertEntry(entry, keyPrefix) of the filesystem-to-Consul tool
convertEntryToConsul(e, keyPrefix) ==
  [Key |-> keyAddPrefix(e.Key, keyPrefix), Value |-> EncodeToString(e.Value)]

\* The entry the filesystem backend reads for a key.
vaultEntry(disk, values, key) ==
  LET i == CHOOSE j \in DOMAIN disk : disk[j] = key
  IN [Key |-> key, Value |-> values[i]]

\* The loop of convert over the filesystem and Consul backends: the entries
\* written, in order.  convert hands the --consul-path flag as given to
\* convertEntry.
exportBackends(disk, values, path) ==
  LET keys == walkKeys(disk, <<>>)
  IN [i \in DOMAIN keys |-> convertEntryToConsul(vaultEntry(disk, values, keys[i]), path)]

\* The loop of the Converter over an array whose values are valid base64:
\* the Vault entries it writes.  It filters and strips with c.keyPrefix.
importConverter(array, path) ==
  {convertEntry(array[i], Clean(path)).entry :
     i \in {j \in DOMAIN array : keyHasPrefix(array[j].Key, Clean(path))}}

\* The loop of convert over the Consul and filesystem backends: ReadEntry
\* filters with be.keyPrefix, convert strips with the flag as given.
importBackends(array, path) ==
  {convertEntry(array[i], path).entry :
     i \in {j \in DOMAIN array : keyHasPrefix(array[j].Key, Clean(path))}}

\* A tree exported with --consul-path, and the array imported by the
\* Converter with the same --consul-path.
CallRoundTripConverter ==
  /\ tool = "functions"
  /\ call.fn = "roundTripConverter"
  /\ ~callRet.done
  /\ ~invalidConsulPath(Clean(consulPath))
  /\ callRet' = [done |-> TRUE,
                 value |-> importConverter(exportBackends(call.disk, call.values, consulPath), consulPath)]
  /\ UNCHANGED programVars

\* The same, imported by convert over the backends.
CallRoundTripBackends ==
  /\ tool = "functions"
  /\ call.fn = "roundTripBackends"
  /\ ~callRet.done
  /\ ~invalidConsulPath(Clean(consulPath))
  /\ callRet' = [done |-> TRUE,
                 value |-> importBackends(exportBackends(call.disk, call.values, consulPath), consulPath)]
  /\ UNCHANGED programVars

\* The array of a reconversion call.
callArray == [i \in DOMAIN call.disk |-> [Key |-> call.disk[i], Value |-> call.values[i]]]

RECURSIVE ConvertAllOver(_, _, _)
\* NewConverter and ConvertAll over the whole array, no call failing: the
\* tree and the directories afterwards.
ConvertAllOver(t, ds, array) ==
  IF array = <<>> THEN [tree |-> t, dirs |-> MkdirAll(ds, outputRootPath)]
  ELSE LET o == CHOOSE r \in convertOutcomesOn(t, MkdirAll(ds, outputRootPath), Head(array)) : r.err = Nil
       IN ConvertAllOver(o.tree, o.dirs, Tail(array))

\* One run into an empty directory, and a second one into what it left.
CallReconvert ==
  /\ tool = "functions"
  /\ call.fn = "reconvert"
  /\ ~callRet.done
  /\ ~invalidConsulPath(Clean(consulPath))
  /\ LET once == ConvertAllOver(<<>>, {}, callArray)
     IN callRet' = [done |-> TRUE,
                    value |-> [once |-> once, twice |-> ConvertAllOver(once.tree, once.dirs, callArray)]]
  /\ UNCHANGED programVars

\* keyHasPrefix(key, prefix) and keyStripPrefix(key, prefix)
CallPrefix ==
  /\ tool = "functions"
  /\ call.fn = "prefix"
  /\ ~callRet.done
  /\ callRet' = [done |-> TRUE,
                 value |-> [has |-> keyHasPrefix(call.disk[1], consulPath),
                            stripped |-> keyStripPrefix(call.disk[1], consulPath)]]
  /\ UNCHANGED programVars

Functions ==
  \/ CallPrefix
  \/ CallFilesystemWalk
  \/ CallFilepathWalk
  \/ CallRoundTripConverter
  \/ CallRoundTripBackends
  \/ CallReconvert

FunctionsSpec == FunctionsInit /\ [][Functions]_vars

\* -------------------------------------------------------------------- specs

Producer == WalkCall \/ walkFnSend \/ walkFnStopped \/ WalkExhausted \/ WalkerStoreErr \/ WalkerClose

Next ==
  \/ ClientNewWalker
  \/ WalkCall
  \/ walkFnSend
  \/ walkFnStopped
  \/ WalkExhausted
  \/ WalkerStoreErr
  \/ WalkerClose
  \/ ClientCallNext
  \/ ClientNextReturns
  \/ ClientStop
  \/ NewConverterWalker
  \/ ConvertWalker
  \/ MainAfterConvertAllWalker
  \/ CloseWalker
  \/ walk
  \/ walkSend
  \/ walkReturns
  \/ filesystemWalkerStoreErr
  \/ filesystemWalkerClose
  \/ openFilesystemBackend
  \/ openConsulBackend
  \/ ReadEntryFs
  \/ WriteEntryConsul
  \/ CloseConsulBackend
  \/ CloseFilesystemBackend
  \/ openConsulBackendInput
  \/ openFilesystemBackendOutput
  \/ ReadEntryConsul
  \/ convertEntryConsulFs
  \/ WriteEntryFs
  \/ CloseFilesystemBackendOutput
  \/ CloseConsulBackendInput
  \/ NewConverterConsul
  \/ ConvertConsul
  \/ MainAfterConvertAllConsul
  \/ CloseConsul
  \/ mainAfterConvert
  \/ NewConverterValidating
  \/ ConvertValidating
  \/ MainAfterConvertAllValidating
  \/ CloseValidating

Spec == Init /\ [][Next]_vars

\* A client of the Walker API alone.
WalkerInit == Init /\ tool = "walker"

WalkerApi ==
  \/ ClientNewWalker
  \/ WalkCall
  \/ walkFnSend
  \/ walkFnStopped
  \/ WalkExhausted
  \/ WalkerStoreErr
  \/ WalkerClose
  \/ ClientCallNext
  \/ ClientNextReturns
  \/ ClientStop

\* The Go scheduler runs every goroutine that can take a step: the producer
\* goroutine, and a consumer whose receive is ready.  Nothing obliges the
\* client to call Next or Stop.
FairSpec == WalkerInit /\ [][WalkerApi]_vars /\ WF_vars(Producer) /\ WF_vars(ClientNextReturns)

\* The filesystem-to-Consul programs and the client of the Walker, with a
\* consumer that keeps calling Next.
ForwardInit == Init /\ tool \in {"walker", "convertWalker", "convertFsConsul"}

\* The goroutine of filesystemWalker.
KeysProducer == walk \/ walkSend \/ walkReturns \/ filesystemWalkerStoreErr \/ filesystemWalkerClose

\* The goroutine that consumes: main of a converter, or the client in its
\* calls of NewWalker and Next.
Consumer ==
  \/ ClientNewWalker
  \/ ClientCallNext
  \/ ClientNextReturns
  \/ NewConverterWalker
  \/ ConvertWalker
  \/ MainAfterConvertAllWalker
  \/ CloseWalker
  \/ openFilesystemBackend
  \/ openConsulBackend
  \/ ReadEntryFs
  \/ WriteEntryConsul
  \/ CloseConsulBackend
  \/ CloseFilesystemBackend
  \/ mainAfterConvert

Forward == Producer \/ KeysProducer \/ Consumer \/ ClientStop

\* The Go scheduler runs the producer goroutine and the consuming one
\* whenever they can take a step; nothing obliges the client to call Stop.
ForwardFairSpec ==
  ForwardInit /\ [][Forward]_vars /\ WF_vars(Producer) /\ WF_vars(KeysProducer) /\ WF_vars(Consumer)

\* ------------------------------------------------------------------ claims

\* C1. Once Stop has been called, at whatever point of the walk, the producer
\* goroutine returns and closes the results channel, also when nobody calls
\* Next any more, and a Next call in progress returns.
WalkerEarlyTermination ==
  /\ stop ~> resultsClosed
  /\ (stop /\ clientPc = "next") ~> (clientPc = "idle")

\* C1 witness: Stop was called with the queue full, the producer gave up its
\* send with walkStopped and closed the channel, and nothing was drained.
WalkerStoppedOnFullQueue ==
  /\ tool = "walker"
  /\ stop
  /\ walkRet = walkStopped
  /\ resultsClosed
  /\ Len(results) = QueueCap

\* The run of a filesystem-to-Consul converter has ended in Failed after it
\* had opened its source and its sink: ConvertAll or convert has an error to
\* return, and pulls nothing more from the walker.
ForwardRunFailed ==
  \/ tool = "convertWalker" /\ run = "failed" /\ opened = {"output", "walker"}
  \/ tool = "convertFsConsul" /\ run = "failed" /\ opened = {"fb", "cb"}

\* The producer is blocked in its send on a full queue and Stop was not
\* called: only a receive or Stop can let it go on.
ProducerBlocked == wpc = "send" /\ Len(results) = QueueCap /\ ~stop

\* C2. When a filesystem-to-Consul run ends in Failed, the traversal is not
\* left blocked on its send into the queue the converter no longer reads.
NoLeakedTraversal == ForwardRunFailed => ~ProducerBlocked

\* The bytes of a file without its newlines and tabs.
Flat(bytes) == SelectSeq(bytes, LAMBDA b : b # "\n" /\ b # "\t")

RECURSIVE Objects(_)
\* The record objects of the given walk results, separated by commas.
Objects(rs) ==
  IF rs = <<>> THEN <<>>
  ELSE IF Len(rs) = 1 THEN <<Obj(rs[1])>>
  ELSE <<Obj(rs[1]), ",">> \o Objects(Tail(rs))

\* C3. A filesystem-to-Consul run that met no failure, over any number of
\* records: the output file is "[", the record objects separated by commas,
\* "]", and ends with a newline.
WellFormedArray ==
  (tool \in {"convertWalker", "convertFsConsul"} /\ exit = "ok" /\ failures = <<>>) =>
    /\ Flat(outFile) = <<"[">> \o Objects(pulled) \o <<"]">>
    /\ outFile[Len(outFile)] = "\n"

\* C4. Once the output file was opened, however the run ends, the file holds
\* exactly one "]", after the last record, and has been closed.
ClosingDelimiterOnEveryExit ==
  (tool \in {"convertWalker", "convertFsConsul"} /\ mpc = "exited" /\ outState # "absent") =>
    /\ Cardinality({i \in DOMAIN outFile : outFile[i] = "]"}) = 1
    /\ Flat(outFile)[Len(Flat(outFile))] = "]"
    /\ outState = "closed"

\* C9. The Walker-based tool: a run that met a failure, the final flush and
\* close included, exits with a failure, and a run that exits in success has
\* left no byte unflushed and has closed the output file.
SuccessImpliesOutputWritten ==
  (tool = "convertWalker" /\ mpc = "exited") =>
    /\ failures # <<>> => exit = "failed"
    /\ exit = "ok" => (buffer = <<>> /\ outState = "closed")

\* C5. A failed walk: the entries enqueued before the failure are returned
\* first, in enqueue order and with a nil error; an error is returned only by a
\* Next call that found the queue empty and closed, and it is the walk's error.
ErrorOnlyAfterDrain ==
  \A i \in DOMAIN deq :
    /\ i <= Len(enq) => deq[i] = [result |-> enq[i], err |-> Nil]
    /\ deq[i].err # Nil =>
         /\ i > Len(enq)
         /\ resultsClosed
         /\ deq[i] = [result |-> NilResult, err |-> walkRet]

\* C5 witness: the walk failed after two or more entries, the consumer got
\* them all and then the error.
FailedWalkDrained ==
  /\ walkRet = WalkError
  /\ Len(enq) >= 2
  /\ Len(deq) = Len(enq) + 1
  /\ deq[Len(deq)].err = WalkError

\* C6 as stated: over any sequence of Next calls the stored error is returned
\* by at most one call.
ErrorDeliveredOnce ==
  Cardinality({i \in DOMAIN deq : deq[i].err # Nil}) <= 1

\* C6 amended: after a failed walk every Next call made once the queue has
\* drained returns the stored error (not only the first such call), and no
\* call before that returns it.
ErrorDeliveredOnEveryCallAfterDrain ==
  walkRet \in {WalkError, ListError} =>
    \A i \in DOMAIN deq : (deq[i].err = walkRet) <=> (i > Len(enq))

\* C6 witness: two Next calls returned the stored error.
ErrorDeliveredTwice ==
  /\ walkRet = WalkError
  /\ Cardinality({i \in DOMAIN deq : deq[i].err = WalkError}) = 2

\* The first-error slot of the run: Converter.firstErr (firstError), or the
\* named result err of convert.
ErrSlot ==
  IF tool \in {"convertWalker", "converterConsulFs", "converterValidating"} THEN firstErr ELSE retErr

\* C7. In every converter run the first-error slot, once it holds an error,
\* keeps that error through every later step (record errors, the trailer, the
\* Close calls of the teardown), and the error it holds is the earliest
\* failure of the run.
FirstErrorWins ==
  /\ [](ErrSlot # Nil => ErrSlot = failures[1])
  /\ [][ErrSlot # Nil => ErrSlot' = ErrSlot]_vars

\* C7 witness: the read of a record failed, then the Close of the input
\* failed as well, and convert returned the read's error.
CloseErrorAfterReadError ==
  /\ tool = "convertConsulFs"
  /\ mpc = "exited"
  /\ failures = <<DecodeError, CloseError>>
  /\ retErr = DecodeError

\* The errors a Close returns.
CloseErrors == {CloseError, CloseWriteError}

\* The backends whose Close has been called.
Closed == {closeLog[i] : i \in DOMAIN closeLog}

\* C8. convert over two backends, once both were opened: by the time it has
\* returned, Close was called once on the source and once on the sink,
\* whatever either returned, and the error returned is a Close error exactly
\* when a Close failed and nothing had failed before it.
TeardownOfBothBackends ==
  (tool \in {"convertFsConsul", "convertConsulFs"} /\ mpc = "exited" /\ opened = {"fb", "cb"}) =>
    /\ Len(closeLog) = 2
    /\ Closed = {"fb", "cb"}
    /\ (retErr \in CloseErrors) <=> (failures # <<>> /\ failures[1] \in CloseErrors)
    /\ retErr = IF failures = <<>> THEN Nil ELSE failures[1]

\* C8 witness: the run read everything, the Close of the array file failed,
\* the other backend was closed after it, and the Close error was returned.
CloseErrorReturned ==
  /\ tool = "convertFsConsul"
  /\ mpc = "exited"
  /\ run = "succeeded"
  /\ closeLog = <<"cb", "fb">>
  /\ failures = <<CloseError>>
  /\ retErr = CloseError

\* The records the source of the run produces, after filtering: the results
\* the walk enqueued, or the decoded elements (those under the key prefix,
\* for a tool that takes one).
Produced ==
  IF tool \in {"convertWalker", "convertFsConsul"} THEN enq
  ELSE IF tool = "converterValidating" THEN SelectSeq(input, LAMBDA e : e # Malformed)
  ELSE SelectSeq(input, LAMBDA e : e # Malformed /\ keyHasPrefix(e.Key, Clean(consulPath)))

\* The record pushed to the sink for the record r pulled from the source.
PushedFor(r) ==
  IF tool \in {"convertWalker", "convertFsConsul"} THEN r
  ELSE IF tool = "converterValidating" THEN convertEntryValidating(r).entry
  ELSE convertEntry(r, IF tool = "convertConsulFs" THEN consulPath ELSE Clean(consulPath)).entry

\* C10. In every converter run the records pulled are the first records the
\* source produced, in its order; the records pushed are those for the
\* records pulled, in the same order, all but at most the last one pulled;
\* and a run that ended in Succeeded has pushed one record for every record
\* produced.
OrderPreserved ==
  tool # "walker" =>
    /\ Len(pulled) <= Len(Produced)
    /\ pulled = SubSeq(Produced, 1, Len(pulled))
    /\ Len(pushed) \in {Len(pulled) - 1, Len(pulled)}
    /\ \A i \in DOMAIN pushed : pushed[i] = PushedFor(pulled[i])
    /\ run = "succeeded" => Len(pushed) = Len(Produced)

\* C10 witness: a run over more files than the queue holds ended in
\* Succeeded with every one of them pushed.
LongRunSucceeded ==
  /\ tool = "convertFsConsul"
  /\ run = "succeeded"
  /\ Len(pushed) > QueueCap

\* The names on the way to a leaf, as the walker reads them level by level:
\* the List of the file backend gives a directory with a "/" after its name.
LevelNames(leaf) ==
  IF call.fn = "walk"
    THEN [i \in DOMAIN Split(leaf) |->
            IF i < Len(Split(leaf)) THEN Split(leaf)[i] \o <<"/">> ELSE Split(leaf)[i]]
    ELSE Split(leaf)

\* The leaf a comes before the leaf b: at the first level where their names
\* differ, the name of a is the smaller string.
LeafBefore(a, b) ==
  \E d \in DOMAIN LevelNames(a) :
    /\ d <= Len(LevelNames(b))
    /\ SubSeq(LevelNames(a), 1, d - 1) = SubSeq(LevelNames(b), 1, d - 1)
    /\ LessStr(LevelNames(a)[d], LevelNames(b)[d])

\* The leaves of the tree walked.
Leaves ==
  IF call.fn = "walk" THEN {call.disk[i] : i \in DOMAIN call.disk}
  ELSE {diskPath(call.disk[i]) : i \in DOMAIN call.disk}

\* C11. The walk of a tree, whatever the order its directories hold their
\* names in: every leaf is sent exactly once, and of two leaves the one sent
\* first has the smaller name at the first level where they part (each level
\* in sorted order, depth first), so the sequence is the same for every walk
\* of the tree.
DeterministicWalkOrder ==
  (tool = "functions" /\ call.fn \in {"walk", "filepathWalk"} /\ callRet.done) =>
    /\ Len(callRet.value) = Cardinality(Leaves)
    /\ {callRet.value[i] : i \in DOMAIN callRet.value} = Leaves
    /\ \A i, j \in DOMAIN callRet.value : i < j => LeafBefore(callRet.value[i], callRet.value[j])

\* C11 witness: the tree holds b/1, a/2, a/1 in that order and the walk sent
\* a/1, a/2, b/1.
WalkedInSortedOrder ==
  /\ call.fn = "walk"
  /\ call.disk = <<<<"b", "/", "1">>, <<"a", "/", "2">>, <<"a", "/", "1">>>>
  /\ callRet.done
  /\ callRet.value = <<<<"a", "/", "1">>, <<"a", "/", "2">>, <<"b", "/", "1">>>>

\* The key prefix of the run: the --consul-path flag, normalised.
KeyPrefix == Clean(consulPath)

\* The key has the prefix, segment by segment.
UnderPrefix(key, prefix) ==
  /\ Len(Split(prefix)) <= Len(Split(key))
  /\ SubSeq(Split(key), 1, Len(Split(prefix))) = Split(prefix)

\* The key without the segments of the prefix.
WithoutPrefix(key, prefix) == Join(SubSeq(Split(key), Len(Split(prefix)) + 1, Len(Split(key))))

\* The file of the output tree the record with this key goes to.
FileOf(key) == IF tool = "convertConsulFs" THEN key ELSE leafPath(outputRootPath, key)

\* C12. An array-to-tree run with a key prefix: a record whose key is not
\* under the prefix gives no file and no error and the run goes on after it;
\* a record whose key is under it is pulled, and is written under its key
\* without the segments of the prefix.
PrefixFilter ==
  tool \in {"convertConsulFs", "converterConsulFs"} =>
    /\ pulled = SelectSeq(input, LAMBDA e : e # Malformed /\ UnderPrefix(e.Key, KeyPrefix))
    /\ (run = "failed" /\ input # <<>> /\ input[Len(input)] # Malformed) =>
         UnderPrefix(input[Len(input)].Key, KeyPrefix)
    /\ \A f \in DOMAIN tree :
         \E i \in DOMAIN pulled : f = FileOf(WithoutPrefix(pulled[i].Key, KeyPrefix))
    /\ \A i \in DOMAIN pushed : pushed[i].Key = WithoutPrefix(pulled[i].Key, KeyPrefix)

\* C13. An array-to-tree run, whatever accepted prefix it was given: from
\* every record that passed the filter keyStripPrefix removes the prefix; it
\* never hands the key back unchanged.
FilterAndStripAgree ==
  tool \in {"convertConsulFs", "converterConsulFs"} =>
    /\ \A i \in DOMAIN pushed : pushed[i].Key # pulled[i].Key
    /\ entry # NoEntry => entry.Key # pulled[Len(pulled)].Key

\* The (key, value) pairs of the tree of a call.
TreePairs == {[Key |-> call.disk[i], Value |-> call.values[i]] : i \in DOMAIN call.disk}

\* C14: a tree exported with an accepted prefix and imported again with the
\* same prefix gives back exactly the (key, value) pairs of the tree, whichever
\* tool imports it; and a key with the prefix added has the prefix, and is
\* the key again once the prefix is stripped.
RoundTrip ==
  /\ (callRet.done /\ call.fn \in {"roundTripConverter", "roundTripBackends"}) =>
       callRet.value = TreePairs
  /\ (call.fn \in {"roundTripConverter", "roundTripBackends"} /\ ~invalidConsulPath(Clean(consulPath))) =>
       \A i \in DOMAIN call.disk :
         /\ keyHasPrefix(keyAddPrefix(call.disk[i], consulPath), consulPath)
         /\ keyStripPrefix(keyAddPrefix(call.disk[i], consulPath), consulPath) = call.disk[i]

\* The tools that turn an array into a tree.
ArrayToTree == {"convertConsulFs", "converterConsulFs", "converterValidating"}

\* The value of the element is not valid base64.
BadValue(e) == e # Malformed /\ DecodeString(e.Value).err # Nil

\* The error names the ordinal k.
NamesOrdinal(err, k) ==
  \E e \in {OpenInputError, DecodeError, Base64Error, MkdirError, OpenLeafError, EncodeError, WriteError,
             "key is empty", "value is empty"} :
    err \in {entryError(k, e), entryErr(k, e)}

\* Every file of the output tree is the whole file of a record pushed.
OnlyWholeFiles ==
  \A f \in DOMAIN tree :
    \E i \in DOMAIN pushed :
      /\ f = FileOf(pushed[i].Key)
      /\ tree[f] \in {pushed[i], Encode(pushed[i])}

\* C15: an array-to-tree run whose k-th record has a value that is not valid
\* base64 has ended, once main is over, in Failed at that record with an
\* error that names the ordinal k, and the output tree holds the whole files
\* of the records before it and nothing of the k-th.
MalformedValueFails ==
  (tool \in ArrayToTree /\ exit # "running") =>
    \A k \in DOMAIN input :
      BadValue(input[k]) =>
        /\ run = "failed"
        /\ exit = "failed"
        /\ k = Len(input)
        /\ NamesOrdinal(ErrSlot, k)
        /\ Len(pushed) < k
        /\ OnlyWholeFiles

\* The tools whose converter counts its records.
Counting == {"convertWalker", "converterConsulFs", "converterValidating"}

\* The number of records pulled from the source so far: the results
\* walker.Next gave, or the elements the decoder was asked for.
PulledCount == IF tool = "convertWalker" THEN Len(pulled) ELSE Len(input)

\* C16: the record counter of a converter starts at 0 and is at every moment
\* the number of records pulled so far, going up by one with each record
\* pulled and never down; and when a step fails on the k-th record pulled,
\* the error recorded names the ordinal k.
OrdinalOfFailingRecord ==
  /\ [](tool \in Counting => count = PulledCount)
  /\ [][(tool \in Counting) => count' \in {count, count + 1}]_vars
  /\ [][(tool \in Counting /\ PulledCount' = PulledCount + 1 /\ failures' # failures) =>
         (firstErr' = failures'[1] /\ NamesOrdinal(firstErr', PulledCount'))]_vars

\* C17: once a step of a run has failed, no further record is pulled from the
\* source, none is pushed to the sink, the counter and the output tree stay
\* as they are, and a run that is in Failed stays in Failed.
OneFailureTerminates ==
  /\ [][failures # <<>> =>
         (pulled' = pulled /\ pushed' = pushed /\ input' = input /\ count' = count /\ tree' = tree)]_vars
  /\ [][run = "failed" => run' = "failed"]_vars

\* C17 witness: a Converter run that had written a record failed on a later
\* one, with input left to read, and main has ended on the error.
FailedMidRun ==
  /\ tool = "converterConsulFs"
  /\ run = "failed"
  /\ exit = "failed"
  /\ pushed # <<>>
  /\ Len(input) < MaxRecords

\* The tools that take a key prefix, and the values of --consul-path that
\* path.Clean turns into "/" or ".".
PrefixTools == {"convertWalker", "convertFsConsul", "convertConsulFs", "converterConsulFs"}
DegeneratePaths == {<<>>, <<"/">>, <<".">>, <<"v", "/", ".", ".">>}

\* C18: a run of a tool that takes a key prefix, given a prefix that is "/"
\* or "." once normalised (the empty prefix too), never gets to Running: it
\* pulls no record, pushes none, writes nothing, and once main is over it has
\* ended in Failed on an error of the initialisation.
DegeneratePrefixRejected ==
  (tool \in PrefixTools /\ consulPath \in DegeneratePaths) =>
    /\ run \in {"init", "failed"}
    /\ pulled = <<>> /\ pushed = <<>> /\ deq = <<>> /\ input = <<>>
    /\ count = 0 /\ tree = <<>> /\ outFile = <<>>
    /\ exit # "running" =>
         (run = "failed" /\ exit = "failed" /\ failures[1] \in {InvalidPathError, OpenBackendError})

\* C18 witness: the filesystem-to-Consul convert, given "v/..", has opened
\* the filesystem backend and ended on the error of the path check.
DegeneratePrefixRun ==
  /\ tool = "convertFsConsul"
  /\ consulPath = <<"v", "/", ".", ".">>
  /\ "fb" \in opened
  /\ exit = "failed"
  /\ failures = <<InvalidPathError>>

\* What a converter has opened or started when both of its opens succeeded.
AllOpened ==
  CASE tool = "convertWalker" -> {"output", "walker"}
    [] tool \in {"convertFsConsul", "convertConsulFs"} -> {"fb", "cb"}
    [] OTHER -> {"input"}

\* The run failed in one of its opens.
OpenFailed == run = "failed" /\ opened # AllOpened

\* convert has returned to main with every deferred Close done, or main has
\* ended.
Returned == (mpc = "return" /\ defers = <<>>) \/ mpc = "exited"

\* C19: a converter is in Running, and has pulled a record, only with both
\* of its opens done; a failure before that puts the run in Failed, and when
\* convert has returned (or main has ended) the error it gives is that open
\* error, the input file is not open any more and the traversal started by
\* the first open is not left blocked on its queue.
RunningRequiresBothOpens ==
  tool \notin {"walker", "functions"} =>
    /\ (run \in {"running", "succeeded"} \/ pulled # <<>> \/ input # <<>> \/ deq # <<>>) => opened = AllOpened
    /\ (opened # AllOpened /\ failures # <<>>) => run = "failed"
    /\ (OpenFailed /\ Returned) =>
         /\ failures # <<>>
         /\ tool \in {"convertFsConsul", "convertConsulFs"} => retErr = failures[1]
         /\ mpc = "exited" => exit = "failed"
         /\ inState # "open"
         /\ exit = "running" => ~ProducerBlocked

\* C20: a run whose input does not begin with the token "[" (another token,
\* or none) fails in its open: no element is decoded, no record pulled or
\* written, the run is never in Running, the input file is never left open,
\* and it has been closed when the error is that of the token.
ReaderOpenCheck ==
  (tool \in ArrayToTree /\ firstToken # "[") =>
    /\ input = <<>> /\ decoded = 0 /\ count = 0
    /\ pulled = <<>> /\ pushed = <<>> /\ tree = <<>>
    /\ run \in {"init", "failed"}
    /\ mpc # "start" => (run = "failed" /\ failures # <<>>)
    /\ inState # "open"
    /\ (failures # <<>> /\ failures[1] \in {TokenError, HeaderError}) => (inState = "closed" /\ ErrSlot \in {Nil, failures[1]})
    /\ exit # "running" => exit = "failed"

\* C20 witness: convert over the backends, given a file that begins with
\* "{", has ended on the error of eatHeader with the file closed.
BadHeaderRun ==
  /\ tool = "convertConsulFs"
  /\ firstToken = "{"
  /\ failures = <<HeaderError>>
  /\ retErr = HeaderError
  /\ inState = "closed"
  /\ exit = "failed"

\* The input holds "]" after its last element, with or without more after it.
ClosedArrays == {<<"]">>, <<"]", "x">>, <<"]", "{">>}

\* C21: when the reader of an array-to-tree run finds "]" after the last
\* element, the step that finds it decodes nothing, writes nothing and
\* records no failure, the run is in Succeeded from then on, and nothing is
\* decoded or written afterwards, whatever follows the "]".
ReaderStopsAtClosing ==
  /\ []((tool \in ArrayToTree /\ closing \in ClosedArrays) => run = "succeeded")
  /\ [][(tool \in ArrayToTree /\ closing = Unread /\ closing' \in ClosedArrays) =>
         (decoded' = decoded /\ input' = input /\ count' = count /\ pulled' = pulled /\ pushed' = pushed
            /\ tree' = tree /\ failures' = failures)]_vars
  /\ [][(tool \in ArrayToTree /\ closing # Unread) =>
         (closing' = closing /\ decoded' = decoded /\ input' = input /\ count' = count /\ pulled' = pulled
            /\ pushed' = pushed /\ tree' = tree)]_vars

\* C21 witness: a Converter run wrote a record, found "]" with another
\* value after it, and ended well.
StoppedAtClosing ==
  /\ tool = "converterConsulFs"
  /\ closing = <<"]", "{">>
  /\ pushed # <<>>
  /\ run = "succeeded"
  /\ exit = "ok"

\* C22: however many times Stop is called on a Walker, the stop channel is
\* closed once, by the first call (a second close would panic), and a call
\* after the first changes nothing of the Walker.
StopIdempotent ==
  /\ [](tool = "walker" =>
          (stopCloses = (IF stopCalls = 0 THEN 0 ELSE 1) /\ stop = (stopCalls > 0) /\ stopped = stop))
  /\ [][(tool = "walker" /\ stopCalls > 0 /\ stopCalls' = stopCalls + 1) =>
         UNCHANGED <<walkerVars, clientPc, enq, deq>>]_vars

\* C22 witness: Stop was called twice and the walk has ended.
StoppedTwice ==
  /\ tool = "walker"
  /\ stopCalls = 2
  /\ stopCloses = 1
  /\ wpc = "done"

\* The results the Next calls have returned so far, in order.
ReturnedResults == [i \in 1..Cardinality({j \in DOMAIN deq : deq[j].result # NilResult}) |-> deq[i].result]

\* C23: the entries enqueued are, at every moment, those Next has returned
\* followed by those still in the queue, in the order of the walk; a Stop
\* call takes nothing out of the queue; a Next call made after Stop with
\* entries in the queue returns the oldest of them; and Next returns the nil
\* result only once the queue is empty and closed, and nothing but nil after.
BufferedEntriesSurviveStop ==
  /\ [](tool = "walker" =>
          /\ enq = ReturnedResults \o results
          /\ \A i \in DOMAIN deq :
               deq[i].result = NilResult =>
                 (results = <<>> /\ resultsClosed /\ \A j \in DOMAIN deq : j > i => deq[j].result = NilResult))
  /\ [][(tool = "walker" /\ stopCalls' # stopCalls) => (results' = results /\ enq' = enq /\ deq' = deq)]_vars
  /\ [][(tool = "walker" /\ stop /\ results # <<>> /\ deq' # deq) =>
         (deq' = Append(deq, [result |-> Head(results), err |-> Nil]) /\ results' = Tail(results))]_vars

\* C23 witness: the walk was stopped at the send of its eleventh file, and
\* Next has returned the ten entries of the queue, in order, and then nil.
DrainedAfterStop ==
  /\ tool = "walker"
  /\ walkRet = walkStopped
  /\ files = QueueCap + 1
  /\ Len(enq) = QueueCap
  /\ Len(deq) = QueueCap + 1
  /\ ReturnedResults = enq
  /\ deq[Len(deq)] = [result |-> NilResult, err |-> Nil]

\* C24: for as long as the walk has met no error (it is running, has
\* exhausted the tree or was stopped) no Next call has returned an error and
\* none is stored; the walk-stopped sentinel is never stored and never
\* returned by Next.
ExhaustionAndStopAreNotErrors ==
  tool \in {"walker", "convertWalker"} =>
    /\ werr # walkStopped
    /\ \A i \in DOMAIN deq : deq[i].err # walkStopped
    /\ walkRet \in {Nil, walkStopped} => (werr = Nil /\ \A i \in DOMAIN deq : deq[i].err = Nil)

\* C24 witness: the walk ended on Stop and Next has returned (nil, nil).
StoppedWalkReportedAsEnd ==
  /\ tool = "walker"
  /\ walkRet = walkStopped
  /\ wpc = "done"
  /\ deq # <<>>
  /\ deq[Len(deq)] = [result |-> NilResult, err |-> Nil]

\* C25: at every moment at most 10 entries are enqueued and not yet returned
\* by Next, and the traversal has taken at most one file more than it has
\* enqueued; while the queue is full and the producer has that file to send,
\* the producer takes no step unless Next takes an entry (or, for Walker,
\* Stop was called).
BoundedQueue ==
  /\ [](tool \in {"walker", "convertWalker", "convertFsConsul"} =>
          /\ Len(results) <= 10
          /\ Len(enq) = Len(results) + Cardinality({i \in DOMAIN deq : deq[i].result # NilResult})
          /\ files \in {Len(enq), Len(enq) + 1}
          /\ wpc = "send" => files = Len(enq) + 1)
  /\ [][(Len(results) = 10 /\ wpc = "send" /\ ~stop /\ results' = results) =>
         UNCHANGED <<wpc, files, skips, walkRet, resultsClosed, werr, enq>>]_vars

\* C25 witness: after Next calls the queue is full again and the producer
\* waits in its send with the next file.
ProducerWaitsOnFullQueue ==
  /\ tool = "convertFsConsul"
  /\ deq # <<>>
  /\ Len(results) = 10
  /\ wpc = "send"
  /\ files = Len(enq) + 1

\* C26: every result the Walker enqueues, and so every one Next returns, is
\* a regular file (the i-th enqueued is the i-th regular file of the walk);
\* and the step that skips a directory or another non-regular file enqueues
\* nothing, stores no error and leaves the walk going.
OnlyRegularFilesYielded ==
  /\ [](tool \in {"walker", "convertWalker"} =>
          /\ \A i \in DOMAIN enq : enq[i] = i
          /\ \A i \in DOMAIN deq : deq[i].result = NilResult \/ deq[i].result \in 1..files)
  /\ [][(tool \in {"walker", "convertWalker"} /\ skips' = skips + 1) =>
         (wpc' = "walk" /\ UNCHANGED <<files, walkRet, werr, results, resultsClosed, enq, sending>>)]_vars

\* C26 witness: a walk that met two regular files and a non-regular one has
\* ended without an error, and Next has returned the two files and then nil.
SkippedAndWentOn ==
  /\ tool = "walker"
  /\ skips = 1
  /\ wpc = "done"
  /\ werr = Nil
  /\ deq = <<[result |-> 1, err |-> Nil], [result |-> 2, err |-> Nil], [result |-> NilResult, err |-> Nil]>>

\* ------------------------------------------------------------------ C27
\* The record objects an array writer may hold.
RecordObjs == {Obj(n) : n \in 1..MaxFiles}

\* The records among the bytes b.
recordsIn(b) == {i \in DOMAIN b : b[i] \in RecordObjs}

\* The tools that write the array file.
ArrayWriters == {"convertWalker", "convertFsConsul"}

\* C27: in every reachable state of an array writer, its in-memory buffer
\* holds the serialised form of at most one record, next to framing bytes.
AtMostOneRecordBuffered ==
  (tool \in ArrayWriters) => Cardinality(recordsIn(buffer)) <= 1

\* ------------------------------------------------------------------ C28
\* The elements of the reconverted array that the Converter writes.
Written == {i \in DOMAIN call.disk : keyHasPrefix(call.disk[i], Clean(consulPath))}

\* The leaf of element i.
leafOf(i) == leafPath(outputRootPath, keyStripPrefix(call.disk[i], Clean(consulPath)))

\* The last element written to the leaf f.
lastOf(f) == CHOOSE i \in Written : leafOf(i) = f /\ \A j \in Written : leafOf(j) = f => j <= i

\* C28: a second run of the array-to-tree Converter over the same input into
\* the same output directory leaves the leaf files, with their contents, that
\* the first run left; a leaf holds the record written to it last and nothing
\* else, whatever it held before.
ReconversionIdempotent ==
  (call.fn = "reconvert" /\ callRet.done) =>
    /\ callRet.value.twice = callRet.value.once
    /\ DOMAIN callRet.value.twice.tree = {leafOf(i) : i \in Written}
    /\ \A f \in DOMAIN callRet.value.twice.tree :
         callRet.value.twice.tree[f] = [Key |-> keyStripPrefix(call.disk[lastOf(f)], Clean(consulPath)),
                                        Value |-> call.values[lastOf(f)]]

\* A reconversion of an array with two records of one leaf, of different
\* values.
ReconvertedOverwrittenLeaf ==
  /\ call.fn = "reconvert"
  /\ callRet.done
  /\ Len(call.disk) = 2
  /\ Written = {1, 2}
  /\ call.disk[1] = call.disk[2]
  /\ call.values = <<"", "QQ==">>

\* ------------------------------------------------------------------ C29
\* C29: every record the array-to-tree Converter writes, of stripped key k, is
\* stored in the file <root>/<directory of k>/_<final segment of k>, whose
\* parent directories exist by then, and two records with different keys are
\* never written to the same file.
KeyToPathMapping ==
  (tool = "converterConsulFs") =>
    /\ \A i \in DOMAIN pushed : leafPath(outputRootPath, pushed[i].Key) \in DOMAIN tree
    /\ \A f \in DOMAIN tree : filepathDir(f) \in dirs
    /\ \A i, j \in DOMAIN pushed :
         pushed[i].Key # pushed[j].Key =>
           leafPath(outputRootPath, pushed[i].Key) # leafPath(outputRootPath, pushed[j].Key)

\* ------------------------------------------------------------------ C30
\* An element of the array whose key is empty, or whose value decodes to no
\* bytes.
EmptyRecord(e) == e # Malformed /\ (e.Key = <<>> \/ e.Value = "")

\* C30: in the Converter that checks its entries, a record whose key is empty
\* or whose decoded value is empty makes the run end in Failed, with an error
\* that names the ordinal of that record, and no output file or directory is
\* created or truncated for it.
EmptyRecordsRejected ==
  /\ []((tool = "converterValidating" /\ input # <<>> /\ EmptyRecord(input[Len(input)])) =>
          /\ run = "failed"
          /\ firstErr \in {entryErr(Len(input), "key is empty"), entryErr(Len(input), "value is empty")}
          /\ mpc = "exited" => exit = "failed")
  /\ [][(tool = "converterValidating" /\ input' # input /\ EmptyRecord(input'[Len(input')])) =>
          /\ tree' = tree
          /\ dirs' = dirs
          /\ pushed' = pushed]_vars

\* A run that wrote a record and then met one with an empty value.
FailedOnEmptyValue ==
  /\ tool = "converterValidating"
  /\ Len(input) = 2
  /\ input[2].Key # <<>>
  /\ input[2].Value = ""
  /\ Len(pushed) = 1
  /\ exit = "failed"

\* ------------------------------------------------------------------ C31
\* The segments of p are the leading segments of k.
LeadingSegments(k, p) ==
  /\ Len(Split(p)) <= Len(Split(k))
  /\ SubSeq(Split(k), 1, Len(Split(p))) = Split(p)

\* C31: keyHasPrefix(k, p) is true exactly when the segments of p between
\* slashes are the leading segments of k; keyStripPrefix(k, p) is then the
\* other segments of k joined by slashes, and is k itself otherwise, so that a
\* key that only starts with the characters of p is neither matched nor
\* altered.
SegmentWisePrefix ==
  (call.fn = "prefix" /\ callRet.done) =>
    LET k == call.disk[1]
        p == consulPath
    IN /\ callRet.value.has = LeadingSegments(k, p)
       /\ callRet.value.stripped =
            IF LeadingSegments(k, p)
              THEN Join(SubSeq(Split(k), Len(Split(p)) + 1, Len(Split(k))))
              ELSE k

\* vx/y against the prefix v.
SubstringNotMatched ==
  /\ call.fn = "prefix"
  /\ callRet.done
  /\ call.disk[1] = <<"v", "x", "/", "y">>
  /\ consulPath = <<"v">>
  /\ ~callRet.value.has
  /\ callRet.value.stripped = call.disk[1]

\* ------------------------------------------------------------------ C32
\* C32: every record that the prefix-stripping array-to-tree Converter writes
\* to the tree has a non-empty key, also when the key of the source record is
\* the prefix itself or the prefix and one slash.
WrittenKeysNonEmpty ==
  (tool = "converterConsulFs") => \A i \in DOMAIN pushed : pushed[i].Key # <<>>

\* ------------------------------------------------------------------ C33
\* C33: with a consumer that keeps calling Next and a fair scheduling of the
\* producer and the consumer, the walk over a finite tree comes to its end,
\* Next returns the end-of-walk result, and the run of a converter reaches
\* Succeeded or Failed.
Termination ==
  /\ (tool = "walker") ~> (wpc = "done" /\ EndReturns >= 1)
  /\ (tool \in {"convertWalker", "convertFsConsul"}) ~> (run \in {"succeeded", "failed"})
  /\ (tool \in {"convertWalker", "convertFsConsul"} /\ run = "running")
       ~> (run = "failed" \/ (run = "succeeded" /\ wpc = "done"))

\* A walk that exhausted a root of MaxFiles files, every one of them
\* converted, and the run Succeeded.
WholeTreeConverted ==
  /\ tool = "convertWalker"
  /\ run = "succeeded"
  /\ wpc = "done"
  /\ walkRet = Nil
  /\ Len(pushed) = MaxFiles

\* ------------------------------------------------------------------ C34
\* The cleaned path p is the root or lies below it.
UnderRoot(p) ==
  \/ p = outputRootPath
  \/ /\ Len(p) > Len(outputRootPath) + 1
     /\ SubSeq(p, 1, Len(outputRootPath) + 1) = outputRootPath \o <<"/">>

\* C34: whatever the keys of the input, with ".." segments, empty segments or
\* a leading slash, every leaf file an array-to-tree Converter writes and every
\* directory it creates lies inside the output root.
OutputUnderRoot ==
  (tool \in {"converterConsulFs", "converterValidating"}) =>
    /\ \A f \in DOMAIN tree : UnderRoot(f)
    /\ \A d \in dirs : UnderRoot(d)

\* ------------------------------------------------------------------ C35
\* C35: an array-to-tree run ends in Succeeded only if the reader reached the
\* "]" that closes the array; an input that ends after a complete record
\* without it does not end the run in Succeeded.
SuccessRequiresClosing ==
  (tool \in ArrayToTree /\ run = "succeeded") => (closing # Unread /\ peek(closing) = "]")

\* ------------------------------------------------------------------ C36
\* C36: when the initialisation fails on a degenerate prefix, the output is
\* as it was: the array file is not created or truncated, the output root is
\* not created and its mode not changed, nothing is written, and no input
\* file is left open.
RejectedPrefixLeavesNoTrace ==
  (tool \in PrefixTools /\ consulPath \in DegeneratePaths) =>
    /\ outState = "absent"
    /\ outFile = <<>>
    /\ buffer = <<>>
    /\ dirs = {}
    /\ tree = <<>>
    /\ inState # "open"
    /\ opened \subseteq {"fb"}

\* The Converter with a prefix, given "/", has ended on the error of the
\* path check.
SlashPrefixRejected ==
  /\ tool = "converterConsulFs"
  /\ consulPath = <<"/">>
  /\ failures = <<InvalidPathError>>
  /\ exit = "failed"

\* ------------------------------------------------------------------ C37
\* The programs with a walker goroutine.
Walking == {"walker", "convertWalker", "convertFsConsul"}

\* C37: the producer writes the error field of the walker only before it
\* closes the queue; Next reads it only when its receive found the queue
\* closed, when the producer is over and writes no more; and the error of a
\* failed walk is in every end-of-walk result Next returns.
RaceFreeErrorHandOff ==
  /\ [][(tool \in Walking /\ werr' # werr) => (wpc = "ret" /\ ~resultsClosed /\ ~resultsClosed')]_vars
  /\ [][(tool \in Walking /\ Len(deq') > Len(deq) /\ results = <<>>) =>
          (resultsClosed /\ wpc = "done" /\ werr' = werr /\ deq'[Len(deq')].err = werr)]_vars
  /\ [][(tool \in Walking /\ Len(deq') > Len(deq) /\ results # <<>>) => deq'[Len(deq')].err = Nil]_vars
  /\ [](tool \in Walking =>
          \A i \in DOMAIN deq :
            (deq[i].result = NilResult /\ walkRet \in {WalkError, ListError}) => deq[i].err = walkRet)

\* The convert over the backends has read a key, then the end of a walk that
\* failed, and returns the error of the walk.
FailedWalkHandedOver ==
  /\ tool = "convertFsConsul"
  /\ walkRet = ListError
  /\ Len(deq) >= 2
  /\ deq[Len(deq)] = [result |-> NilResult, err |-> ListError]
  /\ retErr = ListError

====
